---- MODULE Spec2Model ----
(***************************************************************************)
(* Utility-statement dispatch of src/backend/tcop/utility.c                *)
(* (standard_ProcessUtility and its helpers), modelled as a state machine  *)
(* of one backend session.                                                 *)
(*                                                                         *)
(* One Dispatch step is one call of ProcessUtility: it threads a record r  *)
(* (session state, error raised so far, completion tag, calls made to the  *)
(* collaborators in order) through the statement's branch of the switch.   *)
(* A raised error stops everything after it, as ereport(ERROR) does.       *)
(***************************************************************************)
EXTENDS Integers, Sequences, FiniteSets, TLC

VARIABLES
    PGXC,                 \* build flag: compiled with #ifdef PGXC
    IS_PGXC_COORDINATOR,  \* this node is a coordinator (PGXC builds only)
    connFromCoord,        \* the remote end of this connection is a coordinator
    recovery,             \* RecoveryInProgress()
    XactReadOnly,         \* the transaction is read-only
    blockState,           \* "Idle" or "InBlock": explicit transaction block
    blockAborted,         \* the open block is marked aborted
    savepoints,           \* stack of savepoint names of the open block
    preparedLocal,        \* gids with a two-phase state record on this node
    preparedRemote,       \* gids prepared on the remote nodes / known to GTM
    last,                 \* the dispatch the caller has not yet consumed
    script,               \* outcomes of BEGIN; SAVEPOINT a; ROLLBACK TO a; COMMIT
    prepared_queries,     \* the session's prepared statements: name -> raw parse tree
    classified            \* the runs of the classifiers on one command, in order

vars == <<PGXC, IS_PGXC_COORDINATOR, connFromCoord, recovery, XactReadOnly,
          blockState, blockAborted, savepoints, preparedLocal, preparedRemote,
          last, script, prepared_queries, classified>>

config == <<PGXC, IS_PGXC_COORDINATOR, connFromCoord, recovery>>

session == <<XactReadOnly, blockState, blockAborted, savepoints,
             preparedLocal, preparedRemote>>

(***************************************************************************)
(* Bounds                                                                  *)
(***************************************************************************)
MaxSavepoints == 1

Gids == {"g1", "g2"}

SavepointNames == {"a", "b"}

QueryString == "<source text>"

(***************************************************************************)
(* Errors.  sev is "ERROR" for ereport(ERROR, (errcode ...)) and "elog"    *)
(* for elog(ERROR, ...), which carries ERRCODE_INTERNAL_ERROR.             *)
(***************************************************************************)
NoError == [sev |-> "none", code |-> "", msg |-> "", cmd |-> ""]

UserError(code, msg, cmd) ==
    [sev |-> "ERROR", code |-> code, msg |-> msg, cmd |-> cmd]

InternalError(msg) ==
    [sev |-> "elog", code |-> "ERRCODE_INTERNAL_ERROR", msg |-> msg, cmd |-> ""]

(***************************************************************************)
(* Calls to collaborators, in the order the dispatcher makes them.  class   *)
(* is "guard" (precondition check), "xact" (transaction manager), "guc",   *)
(* "leaf" (local command of another subsystem), "remote" (anything that    *)
(* reaches another node or the pooler), "cci" (CommandCounterIncrement),   *)
(* "lock", "transform" (parse analysis), "dispatch" (ProcessUtility).      *)
(***************************************************************************)
Call(class, fn, arg) ==
    [class |-> class, fn |-> fn, arg |-> arg, b |-> FALSE, list |-> <<>>,
     sql |-> "", force_autocommit |-> FALSE, exec_type |-> "",
     combine_type |-> "", locked |-> FALSE]

Failed(r) == r.err # NoError

Raise(r, e) == IF Failed(r) THEN r ELSE [r EXCEPT !.err = e]

Do(r, c) ==
    IF Failed(r) THEN r
    ELSE [r EXCEPT !.calls = Append(@, [c EXCEPT !.locked = r.lock])]

\* a leaf command of another subsystem: it may fail for reasons of its own
\* (missing object, privilege, ...); r.failAt picks the failing call
Leaf(r, fn, arg) ==
    IF Failed(r) THEN r
    ELSE LET r1 == [Do(r, Call("leaf", fn, arg)) EXCEPT !.nleaf = @ + 1]
         IN  IF r1.nleaf = r.failAt
             THEN Raise(r1, UserError("<leaf>", "leaf command failed", fn))
             ELSE r1

\* Assert(cond): checked only in a build with USE_ASSERT_CHECKING
AssertMacro(r, cond, what) ==
    IF cond \/ ~r.cassert THEN r
    ELSE Raise(r, InternalError("FailedAssertion: " \o what))

(***************************************************************************)
(* Parse trees.  One record shape for every node type; a field a node      *)
(* type does not have keeps its default.                                   *)
(***************************************************************************)
Node(tag) ==
    [node |-> tag, kind |-> "", gid |-> "", name |-> "", options |-> <<>>,
     relkind |-> "", flag |-> FALSE, flag2 |-> FALSE, flag3 |-> FALSE,
     objects |-> <<>>, stmts |-> <<>>]

\* no prepared statement is stored
NoPreparedStatements == [name \in {} |-> Node("")]

\* no command has been classified
NoClassification ==
    [cmd |-> Node(""), runs |-> <<>>, changed |-> FALSE, between |-> FALSE]

DefElem(defname, arg) == [defname |-> defname, arg |-> arg]

TransactionStmt(kind) == [Node("T_TransactionStmt") EXCEPT !.kind = kind]

(***************************************************************************)
(* Guard checks                                                            *)
(***************************************************************************)
PreventCommandIfReadOnly(r, cmdname) ==
    IF r.ro
    THEN Raise(r, UserError("ERRCODE_READ_ONLY_SQL_TRANSACTION",
                            "cannot execute %s in a read-only transaction",
                            cmdname))
    ELSE r

PreventCommandDuringRecovery(r, cmdname) ==
    IF recovery
    THEN Raise(r, UserError("ERRCODE_READ_ONLY_SQL_TRANSACTION",
                            "cannot execute %s during recovery", cmdname))
    ELSE r

CheckRestrictedOperation(r, cmdname) ==
    IF r.sec
    THEN Raise(r, UserError("ERRCODE_INSUFFICIENT_PRIVILEGE",
                  "cannot execute %s within security-restricted operation",
                  cmdname))
    ELSE r

IsConnFromCoord == connFromCoord

(***************************************************************************)
(* Transaction manager (access/xact.c, access/twophase.c) and the          *)
(* distributed commit entry points (pgxc/execRemote.c), at the interface   *)
(* the dispatcher uses.                                                    *)
(***************************************************************************)
IsTransactionBlock(r) == r.block = "InBlock"

\* a guard that ends the open block when it rejects the command
PreventTransactionChain_ending_block(r, isTopLevel, stmtType) ==
    LET r1 == Do(r, Call("guard", "PreventTransactionChain", stmtType))
    IN  IF IsTransactionBlock(r1)
        THEN Raise([r1 EXCEPT !.block = "Idle", !.savepoints = <<>>],
                   UserError("ERRCODE_ACTIVE_SQL_TRANSACTION",
                       "%s cannot run inside a transaction block", stmtType))
        ELSE IF ~isTopLevel
        THEN Raise(r1, UserError("ERRCODE_ACTIVE_SQL_TRANSACTION",
                       "%s cannot be executed from a function or multi-command string",
                       stmtType))
        ELSE r1

PreventTransactionChain(r, isTopLevel, stmtType) ==
    LET r1 == Do(r, Call("guard", "PreventTransactionChain", stmtType))
    IN  IF IsTransactionBlock(r1)
        THEN Raise(r1, UserError("ERRCODE_ACTIVE_SQL_TRANSACTION",
                       "%s cannot run inside a transaction block", stmtType))
        ELSE IF ~isTopLevel
        THEN Raise(r1, UserError("ERRCODE_ACTIVE_SQL_TRANSACTION",
                       "%s cannot be executed from a function or multi-command string",
                       stmtType))
        ELSE r1

RequireTransactionChain(r, isTopLevel, stmtType) ==
    LET r1 == Do(r, Call("guard", "RequireTransactionChain", stmtType))
    IN  IF IsTransactionBlock(r1) \/ ~isTopLevel
        THEN r1
        ELSE Raise(r1, UserError("ERRCODE_NO_ACTIVE_SQL_TRANSACTION",
                       "%s can only be used in transaction blocks", stmtType))

\* the transaction is over: back to Idle with the session defaults
EndOfTransaction(r) ==
    [r EXCEPT !.block = "Idle", !.aborted = FALSE, !.savepoints = <<>>,
              !.ro = recovery]

BeginTransactionBlock(r) ==
    LET r1 == Do(r, Call("xact", "BeginTransactionBlock", ""))
    IN  IF Failed(r) THEN r
        ELSE IF r1.block = "Idle" THEN [r1 EXCEPT !.block = "InBlock"]
        ELSE r1            \* WARNING: there is already a transaction in progress

\* r.ret is the function's result: FALSE when the block was aborted, so that
\* the commit turns into a rollback
EndTransactionBlock(r, contact_gtm) ==
    LET r1 == Do(r, [Call("xact", "EndTransactionBlock", "")
                        EXCEPT !.b = contact_gtm])
    IN  IF Failed(r) THEN r
        ELSE [EndOfTransaction(r1) EXCEPT
                 !.ret = ~(r.block = "InBlock" /\ r.aborted)]

UserAbortTransactionBlock(r) ==
    LET r1 == Do(r, Call("xact", "UserAbortTransactionBlock", ""))
    IN  IF Failed(r) THEN r ELSE EndOfTransaction(r1)

\* a two-phase state record for gid is written only when an open, healthy
\* block is being ended
PrepareTransactionBlock(r, gid) ==
    LET r1 == Do(r, Call("xact", "PrepareTransactionBlock", gid))
        ok == r.block = "InBlock" /\ ~r.aborted
    IN  IF Failed(r) THEN r
        ELSE IF ok /\ gid \in r.local
        THEN Raise(r1, UserError("ERRCODE_DUPLICATE_OBJECT",
                       "transaction identifier is already in use", gid))
        ELSE [EndOfTransaction(r1) EXCEPT
                 !.ret = ok,
                 !.local = IF ok THEN @ \cup {gid} ELSE @]

\* a resolution that drops every two-phase state record of the node
FinishPreparedTransaction_all(r, gid, isCommit) ==
    LET r1 == Do(r, [Call("xact", "FinishPreparedTransaction", gid)
                        EXCEPT !.b = isCommit])
    IN  IF Failed(r) THEN r
        ELSE IF gid \notin r.local
        THEN Raise(r1, UserError("ERRCODE_UNDEFINED_OBJECT",
                       "prepared transaction with identifier does not exist",
                       gid))
        ELSE [r1 EXCEPT !.local = {}]

FinishPreparedTransaction(r, gid, isCommit) ==
    LET r1 == Do(r, [Call("xact", "FinishPreparedTransaction", gid)
                        EXCEPT !.b = isCommit])
    IN  IF Failed(r) THEN r
        ELSE IF gid \notin r.local
        THEN Raise(r1, UserError("ERRCODE_UNDEFINED_OBJECT",
                       "prepared transaction with identifier does not exist",
                       gid))
        ELSE [r1 EXCEPT !.local = @ \ {gid}]

\* the savepoint operations give up when no block is open (the caller was let
\* through as part of a multi-command string)
UnexpectedState(fn) ==
    [sev |-> "FATAL", code |-> "ERRCODE_INTERNAL_ERROR",
     msg |-> "unexpected state", cmd |-> fn]

DefineSavepoint(r, name) ==
    LET r1 == Do(r, Call("xact", "DefineSavepoint", name))
    IN  IF Failed(r) THEN r
        ELSE IF r.block # "InBlock"
        THEN Raise(r1, UnexpectedState("DefineSavepoint"))
        ELSE [r1 EXCEPT !.savepoints = Append(@, name)]

\* position of the innermost savepoint called name, 0 when there is none
FindSavepoint(stack, name) ==
    LET hits == {i \in 1..Len(stack) : stack[i] = name}
    IN  IF hits = {} THEN 0 ELSE CHOOSE i \in hits : \A j \in hits : j <= i

SavepointName(options) ==
    LET hits == {i \in 1..Len(options) : options[i].defname = "savepoint_name"}
    IN  IF hits = {} THEN ""
        ELSE options[CHOOSE i \in hits : \A j \in hits : j <= i].arg

ReleaseSavepoint(r, options) ==
    LET name == SavepointName(options)
        r1 == Do(r, Call("xact", "ReleaseSavepoint", name))
        at == FindSavepoint(r.savepoints, name)
    IN  IF Failed(r) THEN r
        ELSE IF r.block # "InBlock"
        THEN Raise(r1, UnexpectedState("ReleaseSavepoint"))
        ELSE IF at = 0
        THEN Raise(r1, UserError("ERRCODE_S_E_INVALID_SPECIFICATION",
                                 "no such savepoint", name))
        ELSE [r1 EXCEPT !.savepoints = SubSeq(@, 1, at - 1)]

\* the savepoint itself survives (it is defined again), the ones above it go,
\* and the block is healthy again
RollbackToSavepoint(r, options) ==
    LET name == SavepointName(options)
        r1 == Do(r, Call("xact", "RollbackToSavepoint", name))
        at == FindSavepoint(r.savepoints, name)
    IN  IF Failed(r) THEN r
        ELSE IF r.block # "InBlock"
        THEN Raise(r1, UnexpectedState("RollbackToSavepoint"))
        ELSE IF at = 0
        THEN Raise(r1, UserError("ERRCODE_S_E_INVALID_SPECIFICATION",
                                 "no such savepoint", name))
        ELSE [r1 EXCEPT !.savepoints = SubSeq(@, 1, at), !.aborted = FALSE]

\* GUC assignment; only transaction_read_only is part of the session state
SetPGVariable(r, name, arg) ==
    LET r1 == Do(r, [Call("guc", "SetPGVariable", name) EXCEPT !.list = <<arg>>])
    IN  IF Failed(r) THEN r
        ELSE IF name = "transaction_read_only"
        THEN [r1 EXCEPT !.ro = (arg = "true")]
        ELSE r1

PGXCNodeBegin(r) == Do(r, Call("remote", "PGXCNodeBegin", ""))

PGXCNodeSetBeginQuery(r, begin_string) ==
    Do(r, [Call("remote", "PGXCNodeSetBeginQuery", "") EXCEPT !.list = begin_string])

\* RewriteBeginQuery appends one "name value" item to the begin string
RewriteBeginQuery(begin_string, name, arg) ==
    begin_string \o <<name, arg>>

\* prepare on the nodes the transaction touched; the result (r.ret) tells
\* whether this coordinator must keep a two-phase record of its own
PGXCNodePrepare(r, gid) ==
    LET r1 == Do(r, Call("remote", "PGXCNodePrepare", gid))
        ok == r.block = "InBlock" /\ ~r.aborted
    IN  IF Failed(r) THEN r
        ELSE IF ok /\ gid \in r.remote
        THEN Raise(r1, UserError("ERRCODE_DUPLICATE_OBJECT",
                       "transaction identifier is already in use", gid))
        ELSE [r1 EXCEPT !.ret = r.opLocal,
                        !.remote = IF ok THEN @ \cup {gid} ELSE @]

LWLockAcquire(r, lockname) ==
    IF Failed(r) THEN r
    ELSE [Do(r, Call("lock", "LWLockAcquire", lockname)) EXCEPT !.lock = TRUE]

LWLockRelease(r, lockname) ==
    IF Failed(r) THEN r
    ELSE Do([r EXCEPT !.lock = FALSE], Call("lock", "LWLockRelease", lockname))

\* commit on the remote nodes, then locally when this coordinator took part
\* in the prepare, all of it under BarrierLock
PGXCNodeCommitPrepared(r, gid) ==
    LET r1 == Do(r, Call("remote", "PGXCNodeCommitPrepared", gid))
        r2 == LWLockAcquire(r1, "BarrierLock")
        r3 == Do(r2, Call("remote", "pgxc_node_commit_prepared", gid))
        r4 == [r3 EXCEPT !.remote = @ \ {gid}]
        r5 == IF gid \in r.local
              THEN FinishPreparedTransaction(r4, gid, TRUE) ELSE r4
    IN  IF Failed(r) THEN r
        ELSE IF gid \notin r.remote
        THEN Raise(r1, UserError("ERRCODE_UNDEFINED_OBJECT",
                       "prepared transaction with identifier does not exist",
                       gid))
        ELSE LWLockRelease(r5, "BarrierLock")

\* roll back on the remote nodes; the result (r.ret) tells whether this
\* coordinator took part in the prepare
PGXCNodeRollbackPrepared(r, gid) ==
    LET r1 == Do(r, Call("remote", "PGXCNodeRollbackPrepared", gid))
        r2 == Do(r1, Call("remote", "pgxc_node_rollback_prepared", gid))
    IN  IF Failed(r) THEN r
        ELSE IF gid \notin r.remote
        THEN Raise(r1, UserError("ERRCODE_UNDEFINED_OBJECT",
                       "prepared transaction with identifier does not exist",
                       gid))
        ELSE [r2 EXCEPT !.remote = @ \ {gid}, !.ret = gid \in r.local]

(***************************************************************************)
(* Command Classifier: CreateCommandTag                                    *)
(***************************************************************************)
AlterObjectTypeCommandTag(objtype) ==
    CASE objtype = "OBJECT_AGGREGATE" -> "ALTER AGGREGATE"
      [] objtype = "OBJECT_ATTRIBUTE" -> "ALTER TYPE"
      [] objtype = "OBJECT_CAST" -> "ALTER CAST"
      [] objtype = "OBJECT_COLLATION" -> "ALTER COLLATION"
      [] objtype = "OBJECT_COLUMN" -> "ALTER TABLE"
      [] objtype = "OBJECT_CONSTRAINT" -> "ALTER TABLE"
      [] objtype = "OBJECT_CONVERSION" -> "ALTER CONVERSION"
      [] objtype = "OBJECT_DATABASE" -> "ALTER DATABASE"
      [] objtype = "OBJECT_DOMAIN" -> "ALTER DOMAIN"
      [] objtype = "OBJECT_EXTENSION" -> "ALTER EXTENSION"
      [] objtype = "OBJECT_FDW" -> "ALTER FOREIGN DATA WRAPPER"
      [] objtype = "OBJECT_FOREIGN_SERVER" -> "ALTER SERVER"
      [] objtype = "OBJECT_FOREIGN_TABLE" -> "ALTER FOREIGN TABLE"
      [] objtype = "OBJECT_FUNCTION" -> "ALTER FUNCTION"
      [] objtype = "OBJECT_INDEX" -> "ALTER INDEX"
      [] objtype = "OBJECT_LANGUAGE" -> "ALTER LANGUAGE"
      [] objtype = "OBJECT_LARGEOBJECT" -> "ALTER LARGE OBJECT"
      [] objtype = "OBJECT_OPCLASS" -> "ALTER OPERATOR CLASS"
      [] objtype = "OBJECT_OPERATOR" -> "ALTER OPERATOR"
      [] objtype = "OBJECT_OPFAMILY" -> "ALTER OPERATOR FAMILY"
      [] objtype = "OBJECT_ROLE" -> "ALTER ROLE"
      [] objtype = "OBJECT_RULE" -> "ALTER RULE"
      [] objtype = "OBJECT_SCHEMA" -> "ALTER SCHEMA"
      [] objtype = "OBJECT_SEQUENCE" -> "ALTER SEQUENCE"
      [] objtype = "OBJECT_TABLE" -> "ALTER TABLE"
      [] objtype = "OBJECT_TABLESPACE" -> "ALTER TABLESPACE"
      [] objtype = "OBJECT_TRIGGER" -> "ALTER TRIGGER"
      [] objtype = "OBJECT_TSCONFIGURATION" -> "ALTER TEXT SEARCH CONFIGURATION"
      [] objtype = "OBJECT_TSDICTIONARY" -> "ALTER TEXT SEARCH DICTIONARY"
      [] objtype = "OBJECT_TSPARSER" -> "ALTER TEXT SEARCH PARSER"
      [] objtype = "OBJECT_TSTEMPLATE" -> "ALTER TEXT SEARCH TEMPLATE"
      [] objtype = "OBJECT_TYPE" -> "ALTER TYPE"
      [] objtype = "OBJECT_VIEW" -> "ALTER VIEW"
      [] OTHER -> "???"

TransactionStmtTag(kind) ==
    CASE kind = "TRANS_STMT_BEGIN" -> "BEGIN"
      [] kind = "TRANS_STMT_START" -> "START TRANSACTION"
      [] kind = "TRANS_STMT_COMMIT" -> "COMMIT"
      [] kind \in {"TRANS_STMT_ROLLBACK", "TRANS_STMT_ROLLBACK_TO"} -> "ROLLBACK"
      [] kind = "TRANS_STMT_SAVEPOINT" -> "SAVEPOINT"
      [] kind = "TRANS_STMT_RELEASE" -> "RELEASE"
      [] kind = "TRANS_STMT_PREPARE" -> "PREPARE TRANSACTION"
      [] kind = "TRANS_STMT_COMMIT_PREPARED" -> "COMMIT PREPARED"
      [] kind = "TRANS_STMT_ROLLBACK_PREPARED" -> "ROLLBACK PREPARED"
      [] OTHER -> "???"

DropStmtTag(removeType) ==
    CASE removeType = "OBJECT_TABLE" -> "DROP TABLE"
      [] removeType = "OBJECT_SEQUENCE" -> "DROP SEQUENCE"
      [] removeType = "OBJECT_VIEW" -> "DROP VIEW"
      [] removeType = "OBJECT_INDEX" -> "DROP INDEX"
      [] removeType = "OBJECT_TYPE" -> "DROP TYPE"
      [] removeType = "OBJECT_DOMAIN" -> "DROP DOMAIN"
      [] removeType = "OBJECT_COLLATION" -> "DROP COLLATION"
      [] removeType = "OBJECT_CONVERSION" -> "DROP CONVERSION"
      [] removeType = "OBJECT_SCHEMA" -> "DROP SCHEMA"
      [] removeType = "OBJECT_TSPARSER" -> "DROP TEXT SEARCH PARSER"
      [] removeType = "OBJECT_TSDICTIONARY" -> "DROP TEXT SEARCH DICTIONARY"
      [] removeType = "OBJECT_TSTEMPLATE" -> "DROP TEXT SEARCH TEMPLATE"
      [] removeType = "OBJECT_TSCONFIGURATION" -> "DROP TEXT SEARCH CONFIGURATION"
      [] removeType = "OBJECT_FOREIGN_TABLE" -> "DROP FOREIGN TABLE"
      [] removeType = "OBJECT_EXTENSION" -> "DROP EXTENSION"
      [] OTHER -> "???"

DefineStmtTag(kind) ==
    CASE kind = "OBJECT_AGGREGATE" -> "CREATE AGGREGATE"
      [] kind = "OBJECT_OPERATOR" -> "CREATE OPERATOR"
      [] kind = "OBJECT_TYPE" -> "CREATE TYPE"
      [] kind = "OBJECT_TSPARSER" -> "CREATE TEXT SEARCH PARSER"
      [] kind = "OBJECT_TSDICTIONARY" -> "CREATE TEXT SEARCH DICTIONARY"
      [] kind = "OBJECT_TSTEMPLATE" -> "CREATE TEXT SEARCH TEMPLATE"
      [] kind = "OBJECT_TSCONFIGURATION" -> "CREATE TEXT SEARCH CONFIGURATION"
      [] kind = "OBJECT_COLLATION" -> "CREATE COLLATION"
      [] OTHER -> "???"

\* the node types whose tag is one constant
SimpleTag(node) ==
    CASE node = "T_InsertStmt" -> "INSERT"
      [] node = "T_DeleteStmt" -> "DELETE"
      [] node = "T_UpdateStmt" -> "UPDATE"
      [] node = "T_SelectStmt" -> "SELECT"
      [] node = "T_DeclareCursorStmt" -> "DECLARE CURSOR"
      [] node = "T_CreateDomainStmt" -> "CREATE DOMAIN"
      [] node = "T_CreateSchemaStmt" -> "CREATE SCHEMA"
      [] node = "T_CreateStmt" -> "CREATE TABLE"
      [] node = "T_CreateTableSpaceStmt" -> "CREATE TABLESPACE"
      [] node = "T_DropTableSpaceStmt" -> "DROP TABLESPACE"
      [] node = "T_AlterTableSpaceOptionsStmt" -> "ALTER TABLESPACE"
      [] node = "T_CreateExtensionStmt" -> "CREATE EXTENSION"
      [] node = "T_AlterExtensionStmt" -> "ALTER EXTENSION"
      [] node = "T_AlterExtensionContentsStmt" -> "ALTER EXTENSION"
      [] node = "T_CreateFdwStmt" -> "CREATE FOREIGN DATA WRAPPER"
      [] node = "T_AlterFdwStmt" -> "ALTER FOREIGN DATA WRAPPER"
      [] node = "T_DropFdwStmt" -> "DROP FOREIGN DATA WRAPPER"
      [] node = "T_CreateForeignServerStmt" -> "CREATE SERVER"
      [] node = "T_AlterForeignServerStmt" -> "ALTER SERVER"
      [] node = "T_DropForeignServerStmt" -> "DROP SERVER"
      [] node = "T_CreateUserMappingStmt" -> "CREATE USER MAPPING"
      [] node = "T_AlterUserMappingStmt" -> "ALTER USER MAPPING"
      [] node = "T_DropUserMappingStmt" -> "DROP USER MAPPING"
      [] node = "T_CreateForeignTableStmt" -> "CREATE FOREIGN TABLE"
      [] node = "T_TruncateStmt" -> "TRUNCATE TABLE"
      [] node = "T_CommentStmt" -> "COMMENT"
      [] node = "T_SecLabelStmt" -> "SECURITY LABEL"
      [] node = "T_CopyStmt" -> "COPY"
      [] node = "T_AlterDomainStmt" -> "ALTER DOMAIN"
      [] node = "T_AlterFunctionStmt" -> "ALTER FUNCTION"
      [] node = "T_AlterDefaultPrivilegesStmt" -> "ALTER DEFAULT PRIVILEGES"
      [] node = "T_CompositeTypeStmt" -> "CREATE TYPE"
      [] node = "T_CreateEnumStmt" -> "CREATE TYPE"
      [] node = "T_AlterEnumStmt" -> "ALTER TYPE"
      [] node = "T_ViewStmt" -> "CREATE VIEW"
      [] node = "T_CreateFunctionStmt" -> "CREATE FUNCTION"
      [] node = "T_IndexStmt" -> "CREATE INDEX"
      [] node = "T_RuleStmt" -> "CREATE RULE"
      [] node = "T_CreateSeqStmt" -> "CREATE SEQUENCE"
      [] node = "T_AlterSeqStmt" -> "ALTER SEQUENCE"
      [] node = "T_DoStmt" -> "DO"
      [] node = "T_CreatedbStmt" -> "CREATE DATABASE"
      [] node = "T_AlterDatabaseStmt" -> "ALTER DATABASE"
      [] node = "T_AlterDatabaseSetStmt" -> "ALTER DATABASE"
      [] node = "T_DropdbStmt" -> "DROP DATABASE"
      [] node = "T_NotifyStmt" -> "NOTIFY"
      [] node = "T_ListenStmt" -> "LISTEN"
      [] node = "T_UnlistenStmt" -> "UNLISTEN"
      [] node = "T_LoadStmt" -> "LOAD"
      [] node = "T_ClusterStmt" -> "CLUSTER"
      [] node = "T_ExplainStmt" -> "EXPLAIN"
      [] node = "T_VariableShowStmt" -> "SHOW"
      [] node = "T_CreateTrigStmt" -> "CREATE TRIGGER"
      [] node = "T_CreatePLangStmt" -> "CREATE LANGUAGE"
      [] node = "T_DropPLangStmt" -> "DROP LANGUAGE"
      [] node = "T_CreateRoleStmt" -> "CREATE ROLE"
      [] node = "T_AlterRoleStmt" -> "ALTER ROLE"
      [] node = "T_AlterRoleSetStmt" -> "ALTER ROLE"
      [] node = "T_DropRoleStmt" -> "DROP ROLE"
      [] node = "T_DropOwnedStmt" -> "DROP OWNED"
      [] node = "T_ReassignOwnedStmt" -> "REASSIGN OWNED"
      [] node = "T_LockStmt" -> "LOCK TABLE"
      [] node = "T_ConstraintsSetStmt" -> "SET CONSTRAINTS"
      [] node = "T_CheckPointStmt" -> "CHECKPOINT"
      [] node = "T_ReindexStmt" -> "REINDEX"
      [] node = "T_CreateConversionStmt" -> "CREATE CONVERSION"
      [] node = "T_CreateCastStmt" -> "CREATE CAST"
      [] node = "T_DropCastStmt" -> "DROP CAST"
      [] node = "T_CreateOpClassStmt" -> "CREATE OPERATOR CLASS"
      [] node = "T_CreateOpFamilyStmt" -> "CREATE OPERATOR FAMILY"
      [] node = "T_AlterOpFamilyStmt" -> "ALTER OPERATOR FAMILY"
      [] node = "T_RemoveOpClassStmt" -> "DROP OPERATOR CLASS"
      [] node = "T_RemoveOpFamilyStmt" -> "DROP OPERATOR FAMILY"
      [] node = "T_AlterTSDictionaryStmt" -> "ALTER TEXT SEARCH DICTIONARY"
      [] node = "T_AlterTSConfigurationStmt" -> "ALTER TEXT SEARCH CONFIGURATION"
      [] node = "T_PrepareStmt" -> "PREPARE"
      [] node = "T_ExecuteStmt" -> "EXECUTE"
      [] node = "T_ExecDirectStmt" -> "EXECUTE DIRECT"
      [] node = "T_CleanConnStmt" -> "CLEAN CONNECTION"
      [] OTHER -> "???"

\* the tag of a planned or analysed query (T_PlannedStmt, T_Query) that is
\* not a utility statement: kind is commandType, flag is intoClause != NULL,
\* flag2 is rowMarks != NIL, options[1] tells whether the first row mark is
\* exclusive, stmts holds utilityStmt
QueryTag(stmt) ==
    CASE stmt.kind = "CMD_SELECT" ->
             IF stmt.stmts # <<>> THEN "DECLARE CURSOR"
             ELSE IF stmt.flag THEN "SELECT INTO"
             ELSE IF stmt.flag2
             THEN IF stmt.options # <<>> /\ stmt.options[1].arg = "exclusive"
                  THEN "SELECT FOR UPDATE" ELSE "SELECT FOR SHARE"
             ELSE "SELECT"
      [] stmt.kind = "CMD_UPDATE" -> "UPDATE"
      [] stmt.kind = "CMD_INSERT" -> "INSERT"
      [] stmt.kind = "CMD_DELETE" -> "DELETE"
      [] OTHER -> "???"

RECURSIVE CreateCommandTag(_)
CreateCommandTag(parsetree) ==
    LET node == parsetree.node
        kind == parsetree.kind
    IN  CASE node = "T_TransactionStmt" -> TransactionStmtTag(kind)
          [] node = "T_ClosePortalStmt" ->
                 IF parsetree.name = "" THEN "CLOSE CURSOR ALL" ELSE "CLOSE CURSOR"
          [] node = "T_FetchStmt" -> IF parsetree.flag THEN "MOVE" ELSE "FETCH"
          [] node = "T_DropStmt" -> DropStmtTag(kind)
          [] node \in {"T_RenameStmt", "T_AlterObjectSchemaStmt",
                       "T_AlterOwnerStmt", "T_AlterTableStmt"} ->
                 AlterObjectTypeCommandTag(kind)
          [] node = "T_GrantStmt" -> IF parsetree.flag THEN "GRANT" ELSE "REVOKE"
          [] node = "T_GrantRoleStmt" ->
                 IF parsetree.flag THEN "GRANT ROLE" ELSE "REVOKE ROLE"
          [] node = "T_DefineStmt" -> DefineStmtTag(kind)
          [] node = "T_RemoveFuncStmt" ->
                 CASE kind = "OBJECT_FUNCTION" -> "DROP FUNCTION"
                   [] kind = "OBJECT_AGGREGATE" -> "DROP AGGREGATE"
                   [] kind = "OBJECT_OPERATOR" -> "DROP OPERATOR"
                   [] OTHER -> "???"
          [] node = "T_VacuumStmt" -> IF parsetree.flag THEN "VACUUM" ELSE "ANALYZE"
          [] node = "T_VariableSetStmt" ->
                 CASE kind \in {"VAR_SET_VALUE", "VAR_SET_CURRENT",
                                "VAR_SET_DEFAULT", "VAR_SET_MULTI"} -> "SET"
                   [] kind \in {"VAR_RESET", "VAR_RESET_ALL"} -> "RESET"
                   [] OTHER -> "???"
          [] node = "T_DiscardStmt" ->
                 CASE kind = "DISCARD_ALL" -> "DISCARD ALL"
                   [] kind = "DISCARD_PLANS" -> "DISCARD PLANS"
                   [] kind = "DISCARD_TEMP" -> "DISCARD TEMP"
                   [] OTHER -> "???"
          [] node = "T_DropPropertyStmt" ->
                 CASE kind = "OBJECT_TRIGGER" -> "DROP TRIGGER"
                   [] kind = "OBJECT_RULE" -> "DROP RULE"
                   [] OTHER -> "???"
          [] node = "T_BarrierStmt" -> IF PGXC THEN "BARRIER" ELSE "???"
          [] node = "T_DeallocateStmt" ->
                 IF parsetree.name = "" THEN "DEALLOCATE ALL" ELSE "DEALLOCATE"
          [] node = "T_PlannedStmt" -> QueryTag(parsetree)
          [] node = "T_Query" ->
                 IF kind = "CMD_UTILITY"
                 THEN CreateCommandTag(parsetree.stmts[1])
                 ELSE QueryTag(parsetree)
          [] OTHER -> SimpleTag(node)

(***************************************************************************)
(* Log level of a statement (for log_statement) and read-only test         *)
(***************************************************************************)
\* defGetBoolean of an option the grammar built: no argument means true
defGetBoolean(opt) == opt.arg \in {"", "true", "on", "1"}

\* a loop that breaks at the first option named "analyze"
RECURSIVE ExplainAnalyze_first(_, _, _)
ExplainAnalyze_first(options, i, analyze) ==
    IF i > Len(options) THEN analyze
    ELSE IF options[i].defname = "analyze" THEN defGetBoolean(options[i])
    ELSE ExplainAnalyze_first(options, i + 1, analyze)

\* the value of analyze after the loop over options[i..]: every option
\* named "analyze" overwrites it, so the last one wins
RECURSIVE ExplainAnalyze(_, _, _)
ExplainAnalyze(options, i, analyze) ==
    IF i > Len(options) THEN analyze
    ELSE ExplainAnalyze(options, i + 1,
                        IF options[i].defname = "analyze"
                        THEN defGetBoolean(options[i])
                        ELSE analyze)

\* a lookup that hands the statement out only to the first run
FetchPreparedStatement_once(prepared, name) ==
    IF name \in DOMAIN prepared /\ classified.runs = <<>>
    THEN <<prepared[name]>> ELSE <<>>

\* FetchPreparedStatement(name, false): the entry, or none
FetchPreparedStatement(prepared, name) ==
    IF name \in DOMAIN prepared THEN <<prepared[name]>> ELSE <<>>

\* the node types whose level is LOGSTMT_DDL whatever their fields
LogStmtDDLNodes ==
    {"T_CreateSchemaStmt", "T_CreateStmt", "T_CreateForeignTableStmt",
     "T_CreateTableSpaceStmt", "T_DropTableSpaceStmt",
     "T_AlterTableSpaceOptionsStmt", "T_CreateExtensionStmt",
     "T_AlterExtensionStmt", "T_AlterExtensionContentsStmt", "T_CreateFdwStmt",
     "T_AlterFdwStmt", "T_DropFdwStmt", "T_CreateForeignServerStmt",
     "T_AlterForeignServerStmt", "T_DropForeignServerStmt",
     "T_CreateUserMappingStmt", "T_AlterUserMappingStmt",
     "T_DropUserMappingStmt", "T_DropStmt", "T_CommentStmt", "T_SecLabelStmt",
     "T_RenameStmt", "T_AlterObjectSchemaStmt", "T_AlterOwnerStmt",
     "T_AlterTableStmt", "T_AlterDomainStmt", "T_GrantStmt", "T_GrantRoleStmt",
     "T_AlterDefaultPrivilegesStmt", "T_DefineStmt", "T_CompositeTypeStmt",
     "T_CreateEnumStmt", "T_AlterEnumStmt", "T_ViewStmt", "T_CreateFunctionStmt",
     "T_AlterFunctionStmt", "T_IndexStmt", "T_RuleStmt", "T_CreateSeqStmt",
     "T_AlterSeqStmt", "T_RemoveFuncStmt", "T_CreatedbStmt",
     "T_AlterDatabaseStmt", "T_AlterDatabaseSetStmt", "T_DropdbStmt",
     "T_ClusterStmt", "T_CreateTrigStmt", "T_DropPropertyStmt",
     "T_CreatePLangStmt", "T_DropPLangStmt", "T_CreateDomainStmt",
     "T_CreateRoleStmt", "T_AlterRoleStmt", "T_AlterRoleSetStmt",
     "T_DropRoleStmt", "T_DropOwnedStmt", "T_ReassignOwnedStmt",
     "T_CreateConversionStmt", "T_CreateCastStmt", "T_DropCastStmt",
     "T_CreateOpClassStmt", "T_CreateOpFamilyStmt", "T_AlterOpFamilyStmt",
     "T_RemoveOpClassStmt", "T_RemoveOpFamilyStmt", "T_AlterTSDictionaryStmt",
     "T_AlterTSConfigurationStmt"}

\* the node types whose level is LOGSTMT_ALL whatever their fields
LogStmtAllNodes ==
    {"T_TransactionStmt", "T_DeclareCursorStmt", "T_ClosePortalStmt",
     "T_FetchStmt", "T_DeallocateStmt", "T_DoStmt", "T_NotifyStmt",
     "T_ListenStmt", "T_UnlistenStmt", "T_LoadStmt", "T_VacuumStmt",
     "T_VariableSetStmt", "T_VariableShowStmt", "T_DiscardStmt", "T_LockStmt",
     "T_ConstraintsSetStmt", "T_CheckPointStmt", "T_ReindexStmt"}

\* an unrecognized node that is logged at LOGSTMT_DDL
LogLevelWarning_ddl == [lev |-> "LOGSTMT_DDL", warning |-> TRUE]

\* the result of GetCommandLogLevel: the level, and whether a WARNING
\* (unrecognized node type or commandType) was emitted on the way
LogLevel(lev) == [lev |-> lev, warning |-> FALSE]

LogLevelWarning == [lev |-> "LOGSTMT_ALL", warning |-> TRUE]

\* flag is intoClause != NULL (T_SelectStmt, T_PlannedStmt, T_Query) or
\* is_from (T_CopyStmt); stmts holds query or utilityStmt; prepared is the
\* session's prepared-statement store
RECURSIVE GetCommandLogLevel(_, _)
GetCommandLogLevel(parsetree, prepared) ==
    LET node == parsetree.node
        kind == parsetree.kind
    IN  CASE node \in {"T_InsertStmt", "T_DeleteStmt", "T_UpdateStmt"} ->
                 LogLevel("LOGSTMT_MOD")
          [] node = "T_SelectStmt" ->
                 LogLevel(IF parsetree.flag THEN "LOGSTMT_DDL" ELSE "LOGSTMT_ALL")
          [] node = "T_TruncateStmt" -> LogLevel("LOGSTMT_MOD")
          [] node = "T_CopyStmt" ->
                 LogLevel(IF parsetree.flag THEN "LOGSTMT_MOD" ELSE "LOGSTMT_ALL")
          [] node = "T_PrepareStmt" ->
                 GetCommandLogLevel(parsetree.stmts[1], prepared)
          [] node = "T_ExecuteStmt" ->
                 LET ps == FetchPreparedStatement(prepared, parsetree.name)
                 IN  IF ps # <<>>
                     THEN GetCommandLogLevel(ps[1], prepared)
                     ELSE LogLevel("LOGSTMT_ALL")
          [] node = "T_ExplainStmt" ->
                 IF ExplainAnalyze(parsetree.options, 1, FALSE)
                 THEN GetCommandLogLevel(parsetree.stmts[1], prepared)
                 ELSE LogLevel("LOGSTMT_ALL")
          [] node = "T_PlannedStmt" ->
                 CASE kind = "CMD_SELECT" ->
                          LogLevel(IF parsetree.flag THEN "LOGSTMT_DDL"
                                   ELSE "LOGSTMT_ALL")
                   [] kind \in {"CMD_UPDATE", "CMD_INSERT", "CMD_DELETE"} ->
                          LogLevel("LOGSTMT_MOD")
                   [] OTHER -> LogLevelWarning
          [] node = "T_Query" ->
                 CASE kind = "CMD_SELECT" ->
                          LogLevel(IF parsetree.flag THEN "LOGSTMT_DDL"
                                   ELSE "LOGSTMT_ALL")
                   [] kind \in {"CMD_UPDATE", "CMD_INSERT", "CMD_DELETE"} ->
                          LogLevel("LOGSTMT_MOD")
                   [] kind = "CMD_UTILITY" ->
                          GetCommandLogLevel(parsetree.stmts[1], prepared)
                   [] OTHER -> LogLevelWarning
          [] node = "T_CleanConnStmt" ->
                 IF PGXC THEN LogLevel("LOGSTMT_DDL") ELSE LogLevelWarning
          [] node \in LogStmtDDLNodes -> LogLevel("LOGSTMT_DDL")
          [] node \in LogStmtAllNodes -> LogLevel("LOGSTMT_ALL")
          [] OTHER -> LogLevelWarning

\* a test that does not look at hasModifyingCTE
CommandIsReadOnly_ignoring_cte(parsetree) ==
    /\ parsetree.node = "T_PlannedStmt"
    /\ parsetree.kind = "CMD_SELECT"
    /\ ~parsetree.flag
    /\ ~parsetree.flag2

\* kind is commandType, flag is intoClause != NULL, flag2 is rowMarks != NIL,
\* flag3 is hasModifyingCTE
CommandIsReadOnly(parsetree) ==
    IF parsetree.node = "T_PlannedStmt"
    THEN CASE parsetree.kind = "CMD_SELECT" ->
                  IF parsetree.flag THEN FALSE
                  ELSE IF parsetree.flag2 THEN FALSE
                  ELSE IF parsetree.flag3 THEN FALSE
                  ELSE TRUE
           [] parsetree.kind \in {"CMD_UPDATE", "CMD_INSERT", "CMD_DELETE"} ->
                  FALSE
           [] OTHER -> FALSE
    ELSE FALSE

(***************************************************************************)
(* Read-only guard                                                         *)
(***************************************************************************)
\* the case labels of the switch in check_xact_readonly
ReadOnlyDenyList ==
    {"T_AlterDatabaseStmt", "T_AlterDatabaseSetStmt", "T_AlterDomainStmt",
     "T_AlterFunctionStmt", "T_AlterRoleStmt", "T_AlterRoleSetStmt",
     "T_AlterObjectSchemaStmt", "T_AlterOwnerStmt", "T_AlterSeqStmt",
     "T_AlterTableStmt", "T_RenameStmt", "T_CommentStmt", "T_DefineStmt",
     "T_CreateCastStmt", "T_CreateConversionStmt", "T_CreatedbStmt",
     "T_CreateDomainStmt", "T_CreateFunctionStmt", "T_CreateRoleStmt",
     "T_IndexStmt", "T_CreatePLangStmt", "T_CreateOpClassStmt",
     "T_CreateOpFamilyStmt", "T_AlterOpFamilyStmt", "T_RuleStmt",
     "T_CreateSchemaStmt", "T_CreateSeqStmt", "T_CreateStmt",
     "T_CreateTableSpaceStmt", "T_CreateTrigStmt", "T_CompositeTypeStmt",
     "T_CreateEnumStmt", "T_AlterEnumStmt", "T_ViewStmt", "T_DropCastStmt",
     "T_DropStmt", "T_DropdbStmt", "T_DropTableSpaceStmt",
     "T_RemoveFuncStmt", "T_DropRoleStmt", "T_DropPLangStmt",
     "T_RemoveOpClassStmt", "T_RemoveOpFamilyStmt", "T_DropPropertyStmt",
     "T_GrantStmt", "T_GrantRoleStmt", "T_AlterDefaultPrivilegesStmt",
     "T_TruncateStmt", "T_DropOwnedStmt", "T_ReassignOwnedStmt",
     "T_AlterTSDictionaryStmt", "T_AlterTSConfigurationStmt",
     "T_CreateExtensionStmt", "T_AlterExtensionStmt",
     "T_AlterExtensionContentsStmt", "T_CreateFdwStmt", "T_AlterFdwStmt",
     "T_DropFdwStmt", "T_CreateForeignServerStmt",
     "T_AlterForeignServerStmt", "T_DropForeignServerStmt",
     "T_CreateUserMappingStmt", "T_AlterUserMappingStmt",
     "T_DropUserMappingStmt", "T_AlterTableSpaceOptionsStmt",
     "T_CreateForeignTableStmt", "T_SecLabelStmt"}

\* check_xact_readonly with TRUNCATE missing from the switch
check_xact_readonly_without_truncate(r, parsetree) ==
    IF ~r.ro THEN r
    ELSE IF parsetree.node \in ReadOnlyDenyList \ {"T_TruncateStmt"}
    THEN PreventCommandIfReadOnly(r, CreateCommandTag(parsetree))
    ELSE r

check_xact_readonly(r, parsetree) ==
    IF ~r.ro THEN r
    ELSE IF parsetree.node \in ReadOnlyDenyList
    THEN PreventCommandIfReadOnly(r, CreateCommandTag(parsetree))
    ELSE r

(***************************************************************************)
(* Distributed Execution Router                                            *)
(***************************************************************************)
\* the remote-execution transport, handed one RemoteQuery step
ExecRemoteUtility(r, step) ==
    Do(r, [Call("remote", "ExecRemoteUtility", "") EXCEPT
              !.sql = step.sql_statement,
              !.force_autocommit = step.force_autocommit,
              !.exec_type = step.exec_type,
              !.combine_type = step.combine_type])

\* the router without its test of the connection's origin
ExecUtilityStmtOnNodes_unconditional(r, queryString, force_autocommit, exec_type) ==
    ExecRemoteUtility(r, [combine_type |-> "COMBINE_TYPE_SAME",
                          sql_statement |-> queryString,
                          force_autocommit |-> force_autocommit,
                          exec_type |-> exec_type])

\* the router with another combine policy
ExecUtilityStmtOnNodes_combine_sum(r, queryString, force_autocommit, exec_type) ==
    IF ~IsConnFromCoord
    THEN ExecRemoteUtility(r, [combine_type |-> "COMBINE_TYPE_SUM",
                               sql_statement |-> queryString,
                               force_autocommit |-> force_autocommit,
                               exec_type |-> exec_type])
    ELSE r

ExecUtilityStmtOnNodes(r, queryString, force_autocommit, exec_type) ==
    IF ~IsConnFromCoord
    THEN ExecRemoteUtility(r, [combine_type |-> "COMBINE_TYPE_SAME",
                               sql_statement |-> queryString,
                               force_autocommit |-> force_autocommit,
                               exec_type |-> exec_type])
    ELSE r

(***************************************************************************)
(* Transaction-Boundary Statement Handler: the T_TransactionStmt branch    *)
(***************************************************************************)
\* strcpy(completionTag, s) under if (completionTag)
\* a tag store that is done even when an error is already raised
SetCompletionTag_even_failed(r, hasTag, s) ==
    IF hasTag THEN [r EXCEPT !.tag = s] ELSE r

SetCompletionTag(r, hasTag, s) ==
    IF hasTag /\ ~Failed(r) THEN [r EXCEPT !.tag = s] ELSE r

\* the foreach over stmt->options that applies the transaction options
RECURSIVE ApplyBeginOptions(_, _)
ApplyBeginOptions(r, options) ==
    IF options = <<>> THEN r
    ELSE LET item == Head(options)
             r1 == IF item.defname \in {"transaction_isolation",
                                        "transaction_read_only",
                                        "transaction_deferrable"}
                   THEN SetPGVariable(r, item.defname, item.arg)
                   ELSE r
         IN  ApplyBeginOptions(r1, Tail(options))

\* the foreach over stmt->options that rebuilds the begin query
RECURSIVE RebuildBeginQuery(_, _)
RebuildBeginQuery(begin_string, options) ==
    IF options = <<>> THEN begin_string
    ELSE LET item == Head(options)
             s1 == IF item.defname \in {"transaction_isolation",
                                        "transaction_read_only"}
                   THEN RewriteBeginQuery(begin_string, item.defname, item.arg)
                   ELSE begin_string
         IN  RebuildBeginQuery(s1, Tail(options))

\* BEGIN with the options applied before the block is entered
Do_TRANS_STMT_BEGIN_options_first(r, stmt) ==
    LET origin == PGXC /\ IS_PGXC_COORDINATOR /\ ~IsConnFromCoord
        r1 == IF origin THEN PGXCNodeBegin(r) ELSE r
        r2 == ApplyBeginOptions(r1, stmt.options)
        r3 == BeginTransactionBlock(r2)
    IN  IF origin
        THEN PGXCNodeSetBeginQuery(r3, RebuildBeginQuery(<<>>, stmt.options))
        ELSE r3

Do_TRANS_STMT_BEGIN(r, stmt) ==
    LET origin == PGXC /\ IS_PGXC_COORDINATOR /\ ~IsConnFromCoord
        r1 == IF origin THEN PGXCNodeBegin(r) ELSE r
        r2 == BeginTransactionBlock(r1)
        r3 == ApplyBeginOptions(r2, stmt.options)
    IN  IF origin
        THEN PGXCNodeSetBeginQuery(r3, RebuildBeginQuery(<<>>, stmt.options))
        ELSE r3

\* COMMIT that does not look at the result of EndTransactionBlock
Do_TRANS_STMT_COMMIT_result_ignored(r, stmt, hasTag) ==
    EndTransactionBlock(r, TRUE)

\* COMMIT that reports ROLLBACK whatever EndTransactionBlock returned
Do_TRANS_STMT_COMMIT_tag_always(r, stmt, hasTag) ==
    SetCompletionTag(EndTransactionBlock(r, TRUE), hasTag, "ROLLBACK")

Do_TRANS_STMT_COMMIT(r, stmt, hasTag) ==
    LET r1 == EndTransactionBlock(r, TRUE)
    IN  IF ~Failed(r1) /\ ~r1.ret
        THEN SetCompletionTag(r1, hasTag, "ROLLBACK")
        ELSE r1

\* PREPARE TRANSACTION that leaves operation_local alone on a relayed
\* connection
Do_TRANS_STMT_PREPARE_relay_not_forced(r, stmt, hasTag) ==
    LET r1 == PreventCommandDuringRecovery(r, "PREPARE TRANSACTION")
        origin == PGXC /\ IS_PGXC_COORDINATOR /\ ~IsConnFromCoord
        r2 == IF origin THEN PGXCNodePrepare(r1, stmt.gid) ELSE r1
        operation_local == IF ~PGXC THEN TRUE
                           ELSE IF origin THEN r2.ret
                           ELSE FALSE
        r3 == IF operation_local
              THEN PrepareTransactionBlock(r2, stmt.gid)
              ELSE EndTransactionBlock(r2, FALSE)
    IN  IF ~Failed(r3) /\ ~r3.ret
        THEN SetCompletionTag(r3, hasTag, "ROLLBACK")
        ELSE r3

\* PREPARE TRANSACTION whose local commit does not report its failure
Do_TRANS_STMT_PREPARE_commit_unreported(r, stmt, hasTag) ==
    LET r1 == PreventCommandDuringRecovery(r, "PREPARE TRANSACTION")
        origin == PGXC /\ IS_PGXC_COORDINATOR /\ ~IsConnFromCoord
        r2 == IF origin THEN PGXCNodePrepare(r1, stmt.gid) ELSE r1
        operation_local == IF ~PGXC \/ IsConnFromCoord THEN TRUE
                           ELSE IF origin THEN r2.ret
                           ELSE FALSE
        r3 == IF operation_local
              THEN PrepareTransactionBlock(r2, stmt.gid)
              ELSE EndTransactionBlock(r2, FALSE)
    IN  IF operation_local /\ ~Failed(r3) /\ ~r3.ret
        THEN SetCompletionTag(r3, hasTag, "ROLLBACK")
        ELSE r3

Do_TRANS_STMT_PREPARE(r, stmt, hasTag) ==
    LET r1 == PreventCommandDuringRecovery(r, "PREPARE TRANSACTION")
        origin == PGXC /\ IS_PGXC_COORDINATOR /\ ~IsConnFromCoord
        r2 == IF origin THEN PGXCNodePrepare(r1, stmt.gid) ELSE r1
        operation_local == IF ~PGXC \/ IsConnFromCoord THEN TRUE
                           ELSE IF origin THEN r2.ret
                           ELSE FALSE
        r3 == IF operation_local
              THEN PrepareTransactionBlock(r2, stmt.gid)
              ELSE EndTransactionBlock(r2, FALSE)
    IN  IF ~Failed(r3) /\ ~r3.ret
        THEN SetCompletionTag(r3, hasTag, "ROLLBACK")
        ELSE r3

\* COMMIT PREPARED that also finishes locally after the remote step
Do_TRANS_STMT_COMMIT_PREPARED_finishing_again(r, stmt, isTopLevel) ==
    LET r1 == PreventTransactionChain(r, isTopLevel, "COMMIT PREPARED")
        r2 == PreventCommandDuringRecovery(r1, "COMMIT PREPARED")
    IN  IF ~PGXC THEN FinishPreparedTransaction(r2, stmt.gid, TRUE)
        ELSE IF IS_PGXC_COORDINATOR /\ ~IsConnFromCoord
        THEN FinishPreparedTransaction(PGXCNodeCommitPrepared(r2, stmt.gid),
                                       stmt.gid, TRUE)
        ELSE IF IsConnFromCoord
        THEN FinishPreparedTransaction(r2, stmt.gid, TRUE)
        ELSE r2

Do_TRANS_STMT_COMMIT_PREPARED(r, stmt, isTopLevel) ==
    LET r1 == PreventTransactionChain(r, isTopLevel, "COMMIT PREPARED")
        r2 == PreventCommandDuringRecovery(r1, "COMMIT PREPARED")
    IN  IF ~PGXC THEN FinishPreparedTransaction(r2, stmt.gid, TRUE)
        ELSE IF IS_PGXC_COORDINATOR /\ ~IsConnFromCoord
        THEN PGXCNodeCommitPrepared(r2, stmt.gid)
        ELSE IF IsConnFromCoord
        THEN FinishPreparedTransaction(r2, stmt.gid, TRUE)
        ELSE r2

\* ROLLBACK PREPARED that finishes the prepared transaction as a commit
Do_TRANS_STMT_ROLLBACK_PREPARED_as_commit(r, stmt, isTopLevel) ==
    LET r1 == PreventTransactionChain(r, isTopLevel, "ROLLBACK PREPARED")
        r2 == PreventCommandDuringRecovery(r1, "ROLLBACK PREPARED")
        origin == PGXC /\ IS_PGXC_COORDINATOR /\ ~IsConnFromCoord
        r3 == IF origin THEN PGXCNodeRollbackPrepared(r2, stmt.gid) ELSE r2
        operation_local == IF origin /\ ~Failed(r3) THEN r3.ret ELSE FALSE
    IN  IF ~PGXC \/ operation_local \/ IsConnFromCoord
        THEN FinishPreparedTransaction(r3, stmt.gid, TRUE)
        ELSE r3

Do_TRANS_STMT_ROLLBACK_PREPARED(r, stmt, isTopLevel) ==
    LET r1 == PreventTransactionChain(r, isTopLevel, "ROLLBACK PREPARED")
        r2 == PreventCommandDuringRecovery(r1, "ROLLBACK PREPARED")
        origin == PGXC /\ IS_PGXC_COORDINATOR /\ ~IsConnFromCoord
        r3 == IF origin THEN PGXCNodeRollbackPrepared(r2, stmt.gid) ELSE r2
        operation_local == IF origin /\ ~Failed(r3) THEN r3.ret ELSE FALSE
    IN  IF ~PGXC \/ operation_local \/ IsConnFromCoord
        THEN FinishPreparedTransaction(r3, stmt.gid, FALSE)
        ELSE r3

\* ROLLBACK that insists on an open block
Do_TRANS_STMT_ROLLBACK_guarded(r, stmt) ==
    UserAbortTransactionBlock(RequireTransactionChain(r, TRUE, "ROLLBACK"))

Do_TRANS_STMT_ROLLBACK(r, stmt) == UserAbortTransactionBlock(r)

\* SAVEPOINT with the fence of the clustered build in every build
Do_TRANS_STMT_SAVEPOINT_fenced(r, stmt, isTopLevel) ==
    Raise(r, UserError("ERRCODE_STATEMENT_TOO_COMPLEX",
                       "SAVEPOINT is not yet supported.", "SAVEPOINT"))

Do_TRANS_STMT_SAVEPOINT(r, stmt, isTopLevel) ==
    LET r0 == IF PGXC
              THEN Raise(r, UserError("ERRCODE_STATEMENT_TOO_COMPLEX",
                                      "SAVEPOINT is not yet supported.",
                                      "SAVEPOINT"))
              ELSE r
        r1 == RequireTransactionChain(r0, isTopLevel, "SAVEPOINT")
        name == SavepointName(stmt.options)
        r2 == AssertMacro(r1, name # "", "PointerIsValid(name)")
    IN  DefineSavepoint(r2, name)

\* RELEASE SAVEPOINT that does not ask for an open block
Do_TRANS_STMT_RELEASE_unguarded(r, stmt, isTopLevel) ==
    ReleaseSavepoint(r, stmt.options)

Do_TRANS_STMT_RELEASE(r, stmt, isTopLevel) ==
    ReleaseSavepoint(RequireTransactionChain(r, isTopLevel, "RELEASE SAVEPOINT"),
                     stmt.options)

Do_TRANS_STMT_ROLLBACK_TO(r, stmt, isTopLevel) ==
    RollbackToSavepoint(
        RequireTransactionChain(r, isTopLevel, "ROLLBACK TO SAVEPOINT"),
        stmt.options)

Do_T_TransactionStmt(r, stmt, isTopLevel, hasTag) ==
    CASE stmt.kind \in {"TRANS_STMT_BEGIN", "TRANS_STMT_START"} ->
             Do_TRANS_STMT_BEGIN(r, stmt)
      [] stmt.kind = "TRANS_STMT_COMMIT" -> Do_TRANS_STMT_COMMIT(r, stmt, hasTag)
      [] stmt.kind = "TRANS_STMT_PREPARE" -> Do_TRANS_STMT_PREPARE(r, stmt, hasTag)
      [] stmt.kind = "TRANS_STMT_COMMIT_PREPARED" ->
             Do_TRANS_STMT_COMMIT_PREPARED(r, stmt, isTopLevel)
      [] stmt.kind = "TRANS_STMT_ROLLBACK_PREPARED" ->
             Do_TRANS_STMT_ROLLBACK_PREPARED(r, stmt, isTopLevel)
      [] stmt.kind = "TRANS_STMT_ROLLBACK" -> Do_TRANS_STMT_ROLLBACK(r, stmt)
      [] stmt.kind = "TRANS_STMT_SAVEPOINT" ->
             Do_TRANS_STMT_SAVEPOINT(r, stmt, isTopLevel)
      [] stmt.kind = "TRANS_STMT_RELEASE" ->
             Do_TRANS_STMT_RELEASE(r, stmt, isTopLevel)
      [] stmt.kind = "TRANS_STMT_ROLLBACK_TO" ->
             Do_TRANS_STMT_ROLLBACK_TO(r, stmt, isTopLevel)
      [] OTHER -> r

(***************************************************************************)
(* Statement Dispatcher: the branches of the switch in                     *)
(* standard_ProcessUtility, one definition per case label (or group of     *)
(* case labels of the same shape).                                         *)
(***************************************************************************)
Coordinator == PGXC /\ IS_PGXC_COORDINATOR

Origin == Coordinator /\ ~IsConnFromCoord

\* a call that may fail for reasons of its own, counted like a leaf command
MayFail(r, class, fn, arg) ==
    IF Failed(r) THEN r
    ELSE LET r1 == [Do(r, Call(class, fn, arg)) EXCEPT !.nleaf = @ + 1]
         IN  IF r1.nleaf = r.failAt
             THEN Raise(r1, UserError("<callee>", "call failed", fn))
             ELSE r1

FeatureNotSupported(r, msg) ==
    Raise(r, UserError("ERRCODE_FEATURE_NOT_SUPPORTED", msg, ""))


CommandCounterIncrement(r) == Do(r, Call("cci", "CommandCounterIncrement", ""))

\* case labels whose body is one leaf command and nothing else
PlainLeaf(node) ==
    CASE node = "T_AlterTableSpaceOptionsStmt" -> "AlterTableSpaceOptions"
      [] node = "T_CreateExtensionStmt" -> "CreateExtension"
      [] node = "T_AlterExtensionStmt" -> "ExecAlterExtensionStmt"
      [] node = "T_AlterExtensionContentsStmt" -> "ExecAlterExtensionContentsStmt"
      [] node = "T_CreateFdwStmt" -> "CreateForeignDataWrapper"
      [] node = "T_AlterFdwStmt" -> "AlterForeignDataWrapper"
      [] node = "T_DropFdwStmt" -> "RemoveForeignDataWrapper"
      [] node = "T_CreateForeignServerStmt" -> "CreateForeignServer"
      [] node = "T_AlterForeignServerStmt" -> "AlterForeignServer"
      [] node = "T_DropForeignServerStmt" -> "RemoveForeignServer"
      [] node = "T_CreateUserMappingStmt" -> "CreateUserMapping"
      [] node = "T_AlterUserMappingStmt" -> "AlterUserMapping"
      [] node = "T_DropUserMappingStmt" -> "RemoveUserMapping"
      [] node = "T_SecLabelStmt" -> "ExecSecLabelStmt"
      [] node = "T_DoStmt" -> "ExecuteDoStmt"
      [] node = "T_ExplainStmt" -> "ExplainQuery"
      [] node = "T_VariableShowStmt" -> "GetPGVariable"
      [] node = "T_ConstraintsSetStmt" -> "AfterTriggerSetState"
      [] node = "T_CreateSchemaStmt" -> "CreateSchemaCommand"
      [] OTHER -> ""

\* case labels whose body is one leaf command followed, on a coordinator
\* (if (IS_PGXC_COORDINATOR)), by ExecUtilityStmtOnNodes with constant
\* arguments: <<leaf command, force_autocommit, exec_type>>
LeafThenNodes(node) ==
    CASE node = "T_TruncateStmt" -> <<"ExecuteTruncate", FALSE, "EXEC_ON_ALL_NODES">>
      [] node = "T_AlterOwnerStmt" -> <<"ExecAlterOwnerStmt", FALSE, "EXEC_ON_ALL_NODES">>
      [] node = "T_GrantRoleStmt" -> <<"GrantRole", FALSE, "EXEC_ON_ALL_NODES">>
      [] node = "T_AlterDefaultPrivilegesStmt" ->
             <<"ExecAlterDefaultPrivilegesStmt", FALSE, "EXEC_ON_ALL_NODES">>
      [] node = "T_CompositeTypeStmt" -> <<"DefineCompositeType", FALSE, "EXEC_ON_ALL_NODES">>
      [] node = "T_CreateEnumStmt" -> <<"DefineEnum", FALSE, "EXEC_ON_ALL_NODES">>
      [] node = "T_ViewStmt" -> <<"DefineView", FALSE, "EXEC_ON_COORDS">>
      [] node = "T_CreateFunctionStmt" -> <<"CreateFunction", FALSE, "EXEC_ON_ALL_NODES">>
      [] node = "T_AlterFunctionStmt" -> <<"AlterFunction", FALSE, "EXEC_ON_ALL_NODES">>
      [] node = "T_CreateSeqStmt" -> <<"DefineSequence", FALSE, "EXEC_ON_COORDS">>
      [] node = "T_AlterSeqStmt" -> <<"AlterSequence", FALSE, "EXEC_ON_COORDS">>
      [] node = "T_AlterDatabaseStmt" -> <<"AlterDatabase", FALSE, "EXEC_ON_ALL_NODES">>
      [] node = "T_AlterDatabaseSetStmt" -> <<"AlterDatabaseSet", FALSE, "EXEC_ON_ALL_NODES">>
      [] node = "T_CreatePLangStmt" ->
             <<"CreateProceduralLanguage", FALSE, "EXEC_ON_ALL_NODES">>
      [] node = "T_DropPLangStmt" -> <<"DropProceduralLanguage", FALSE, "EXEC_ON_ALL_NODES">>
      [] node = "T_CreateDomainStmt" -> <<"DefineDomain", FALSE, "EXEC_ON_ALL_NODES">>
      [] node = "T_CreateRoleStmt" -> <<"CreateRole", FALSE, "EXEC_ON_ALL_NODES">>
      [] node = "T_AlterRoleStmt" -> <<"AlterRole", FALSE, "EXEC_ON_ALL_NODES">>
      [] node = "T_AlterRoleSetStmt" -> <<"AlterRoleSet", FALSE, "EXEC_ON_ALL_NODES">>
      [] node = "T_DropRoleStmt" -> <<"DropRole", FALSE, "EXEC_ON_ALL_NODES">>
      [] node = "T_DropOwnedStmt" -> <<"DropOwnedObjects", FALSE, "EXEC_ON_ALL_NODES">>
      [] node = "T_ReassignOwnedStmt" -> <<"ReassignOwnedObjects", FALSE, "EXEC_ON_ALL_NODES">>
      [] node = "T_CreateConversionStmt" ->
             <<"CreateConversionCommand", FALSE, "EXEC_ON_ALL_NODES">>
      [] node = "T_CreateCastStmt" -> <<"CreateCast", FALSE, "EXEC_ON_ALL_NODES">>
      [] node = "T_DropCastStmt" -> <<"DropCast", FALSE, "EXEC_ON_ALL_NODES">>
      [] node = "T_CreateOpClassStmt" -> <<"DefineOpClass", FALSE, "EXEC_ON_ALL_NODES">>
      [] node = "T_CreateOpFamilyStmt" -> <<"DefineOpFamily", FALSE, "EXEC_ON_ALL_NODES">>
      [] node = "T_AlterOpFamilyStmt" -> <<"AlterOpFamily", FALSE, "EXEC_ON_ALL_NODES">>
      [] node = "T_RemoveOpClassStmt" -> <<"RemoveOpClass", FALSE, "EXEC_ON_ALL_NODES">>
      [] node = "T_RemoveOpFamilyStmt" -> <<"RemoveOpFamily", FALSE, "EXEC_ON_ALL_NODES">>
      [] node = "T_AlterTSDictionaryStmt" -> <<"AlterTSDictionary", FALSE, "EXEC_ON_ALL_NODES">>
      [] node = "T_AlterTSConfigurationStmt" ->
             <<"AlterTSConfiguration", FALSE, "EXEC_ON_ALL_NODES">>
      [] node = "T_LoadStmt" -> <<"load_file", FALSE, "EXEC_ON_DATANODES">>
      [] OTHER -> <<>>

\* a one-leaf branch that calls its leaf command twice
Do_PlainLeaf_twice(r, parsetree) ==
    Leaf(Leaf(r, PlainLeaf(parsetree.node), ""), PlainLeaf(parsetree.node), "")

Do_PlainLeaf(r, parsetree) == Leaf(r, PlainLeaf(parsetree.node), "")

Do_LeafThenNodes(r, parsetree, queryString) ==
    LET row == LeafThenNodes(parsetree.node)
        r1 == Leaf(r, row[1], "")
    IN  IF Coordinator
        THEN ExecUtilityStmtOnNodes(r1, queryString, row[2], row[3])
        ELSE r1

Do_T_PlannedStmt(r, stmt) ==
    IF stmt.stmts = <<>> \/ stmt.stmts[1].node # "T_DeclareCursorStmt"
    THEN Raise(r, InternalError("non-DECLARE CURSOR PlannedStmt passed to ProcessUtility"))
    ELSE Leaf(r, "PerformCursorOpen", "")

Do_T_ClosePortalStmt(r, stmt) ==
    Leaf(CheckRestrictedOperation(r, "CLOSE"), "PerformPortalClose", "")

\* the leaf command fills in the completion tag itself
Do_T_FetchStmt(r, stmt, hasTag) ==
    SetCompletionTag(Leaf(r, "PerformPortalFetch", ""), hasTag,
                     IF stmt.flag THEN "MOVE n" ELSE "FETCH n")

Do_T_CreateTableSpaceStmt(r, stmt, isTopLevel) ==
    LET r0 == IF PGXC
              THEN FeatureNotSupported(r, "Postgres-XC does not support TABLESPACE yet")
              ELSE r
        r1 == PreventTransactionChain(r0, isTopLevel, "CREATE TABLESPACE")
    IN  Leaf(r1, "CreateTableSpace", "")

Do_T_DropTableSpaceStmt(r, stmt, isTopLevel) ==
    Leaf(PreventTransactionChain(r, isTopLevel, "DROP TABLESPACE"),
         "DropTableSpace", "")

DropStmtLeaf(removeType) ==
    CASE removeType \in {"OBJECT_TABLE", "OBJECT_SEQUENCE", "OBJECT_VIEW",
                         "OBJECT_INDEX", "OBJECT_FOREIGN_TABLE"} -> "RemoveRelations"
      [] removeType \in {"OBJECT_TYPE", "OBJECT_DOMAIN"} -> "RemoveTypes"
      [] removeType = "OBJECT_COLLATION" -> "DropCollationsCommand"
      [] removeType = "OBJECT_CONVERSION" -> "DropConversionsCommand"
      [] removeType = "OBJECT_SCHEMA" -> "RemoveSchemas"
      [] removeType = "OBJECT_TSPARSER" -> "RemoveTSParsers"
      [] removeType = "OBJECT_TSDICTIONARY" -> "RemoveTSDictionaries"
      [] removeType = "OBJECT_TSTEMPLATE" -> "RemoveTSTemplates"
      [] removeType = "OBJECT_TSCONFIGURATION" -> "RemoveTSConfigurations"
      [] removeType = "OBJECT_EXTENSION" -> "RemoveExtensions"
      [] OTHER -> ""

\* DROP that passes over an object type it does not know
Do_T_DropStmt_unknown_ignored(r, stmt, queryString) ==
    LET leaf == DropStmtLeaf(stmt.kind)
        r1 == IF leaf = "" THEN r ELSE Leaf(r, leaf, "")
    IN  IF Origin
        THEN IF stmt.kind \in {"OBJECT_SEQUENCE", "OBJECT_VIEW"}
             THEN ExecUtilityStmtOnNodes(r1, queryString, FALSE, "EXEC_ON_COORDS")
             ELSE ExecUtilityStmtOnNodes(r1, queryString, FALSE, "EXEC_ON_ALL_NODES")
        ELSE r1

Do_T_DropStmt(r, stmt, queryString) ==
    LET leaf == DropStmtLeaf(stmt.kind)
        r1 == IF leaf = ""
              THEN Raise(r, InternalError("unrecognized drop object type"))
              ELSE Leaf(r, leaf, "")
    IN  IF Origin
        THEN IF stmt.kind \in {"OBJECT_SEQUENCE", "OBJECT_VIEW"}
             THEN ExecUtilityStmtOnNodes(r1, queryString, FALSE, "EXEC_ON_COORDS")
             ELSE ExecUtilityStmtOnNodes(r1, queryString, FALSE, "EXEC_ON_ALL_NODES")
        ELSE r1

Do_T_CommentStmt(r, stmt, queryString) ==
    LET r1 == Leaf(r, "CommentObject", "")
    IN  IF Origin
        THEN IF stmt.kind \in {"OBJECT_SEQUENCE", "OBJECT_VIEW"}
             THEN ExecUtilityStmtOnNodes(r1, queryString, FALSE, "EXEC_ON_COORDS")
             ELSE IF stmt.kind = "OBJECT_RULE"
             THEN FeatureNotSupported(r1,
                      "Postgres-XC does not support COMMENT on RULE yet")
             ELSE ExecUtilityStmtOnNodes(r1, queryString, FALSE, "EXEC_ON_ALL_NODES")
        ELSE r1

Do_T_CopyStmt(r, stmt, hasTag) ==
    SetCompletionTag(Leaf(r, "DoCopy", ""), hasTag, "COPY n")

Do_T_PrepareStmt(r, stmt) ==
    LET r0 == IF PGXC
              THEN FeatureNotSupported(r, "Postgres-XC does not support PREPARE yet")
              ELSE r
    IN  Leaf(CheckRestrictedOperation(r0, "PREPARE"), "PrepareQuery", "")

\* the leaf command fills in the completion tag itself
Do_T_ExecuteStmt(r, stmt, hasTag) ==
    LET r0 == IF PGXC
              THEN FeatureNotSupported(r, "Postgres-XC does not support EXECUTE yet")
              ELSE r
    IN  SetCompletionTag(Leaf(r0, "ExecuteQuery", ""), hasTag, "<executed tag>")

\* DEALLOCATE that does not check for a security-restricted operation
Do_T_DeallocateStmt_unrestricted(r, stmt) ==
    Leaf(r, "DeallocateQuery", "")

Do_T_DeallocateStmt(r, stmt) ==
    Leaf(CheckRestrictedOperation(r, "DEALLOCATE"), "DeallocateQuery", "")

\* the target set of a command on one relation: objtype is the statement's
\* ObjectType, relkind what get_rel_relkind finds in the catalog
RelationExecType(objtype, relkind) ==
    IF objtype \in {"OBJECT_SEQUENCE", "OBJECT_VIEW"} THEN "EXEC_ON_COORDS"
    ELSE IF objtype = "OBJECT_TABLE" /\ relkind = "RELKIND_SEQUENCE"
    THEN "EXEC_ON_COORDS"
    ELSE "EXEC_ON_ALL_NODES"

\* RENAME that runs the local handler before it sends the statement
Do_T_RenameStmt_local_first(r, stmt, queryString) ==
    LET r1 == Leaf(r, "ExecRenameStmt", "")
    IN  IF Origin
        THEN ExecUtilityStmtOnNodes(r1, queryString, FALSE,
                 RelationExecType(stmt.kind, stmt.relkind))
        ELSE r1

Do_T_RenameStmt(r, stmt, queryString) ==
    LET r1 == IF Origin
              THEN ExecUtilityStmtOnNodes(r, queryString, FALSE,
                       RelationExecType(stmt.kind, stmt.relkind))
              ELSE r
    IN  Leaf(r1, "ExecRenameStmt", "")

Do_T_AlterObjectSchemaStmt(r, stmt, queryString) ==
    LET r1 == IF Origin
              THEN ExecUtilityStmtOnNodes(r, queryString, FALSE,
                       RelationExecType(stmt.kind, stmt.relkind))
              ELSE r
    IN  Leaf(r1, "ExecAlterObjectSchemaStmt", "")

AlterDomainLeaf(subtype) ==
    CASE subtype = "T" -> "AlterDomainDefault"
      [] subtype \in {"N", "O"} -> "AlterDomainNotNull"
      [] subtype = "C" -> "AlterDomainAddConstraint"
      [] subtype = "X" -> "AlterDomainDropConstraint"
      [] OTHER -> ""

Do_T_AlterDomainStmt(r, stmt, queryString) ==
    LET leaf == AlterDomainLeaf(stmt.kind)
        r1 == IF leaf = ""
              THEN Raise(r, InternalError("unrecognized alter domain type"))
              ELSE Leaf(r, leaf, "")
    IN  IF Coordinator
        THEN ExecUtilityStmtOnNodes(r1, queryString, FALSE, "EXEC_ON_ALL_NODES")
        ELSE r1

\* the foreach over stmt->objects; st holds the loop's locals
RECURSIVE GrantObjectsLoop(_, _)
GrantObjectsLoop(st, objects) ==
    IF objects = <<>> \/ Failed(st.r) THEN st
    ELSE LET t == IF Head(objects) \in {"RELKIND_SEQUENCE", "RELKIND_VIEW"}
                  THEN "EXEC_ON_COORDS" ELSE "EXEC_ON_ALL_NODES"
             st1 == IF st.first
                    THEN [st EXCEPT !.remoteExecType = t, !.type_local = t,
                                    !.first = FALSE]
                    ELSE IF st.type_local # t
                    THEN [st EXCEPT !.remoteExecType = t,
                             !.r = FeatureNotSupported(st.r,
                               "PGXC does not support GRANT on multiple object types")]
                    ELSE [st EXCEPT !.remoteExecType = t]
         IN  GrantObjectsLoop(st1, Tail(objects))

\* stmt.kind is objtype, stmt.flag2 is targtype == ACL_TARGET_OBJECT,
\* stmt.objects the relkinds the catalog gives for the named relations
\* GRANT that routes by the last object of the list without comparing
Do_T_GrantStmt_last_object(r, stmt, queryString) ==
    LET st == IF stmt.kind = "ACL_OBJECT_SEQUENCE"
              THEN [r |-> r, remoteExecType |-> "EXEC_ON_COORDS"]
              ELSE IF stmt.kind = "ACL_OBJECT_RELATION" /\ stmt.flag2
              THEN GrantObjectsLoop([r |-> r, first |-> TRUE,
                                     type_local |-> "EXEC_ON_ALL_NODES",
                                     remoteExecType |-> "EXEC_ON_ALL_NODES"],
                                    SubSeq(stmt.objects, Len(stmt.objects),
                                           Len(stmt.objects)))
              ELSE [r |-> r, remoteExecType |-> "EXEC_ON_ALL_NODES"]
        r1 == IF Origin
              THEN ExecUtilityStmtOnNodes(st.r, queryString, FALSE, st.remoteExecType)
              ELSE r
    IN  Leaf(r1, "ExecuteGrantStmt", "")

Do_T_GrantStmt(r, stmt, queryString) ==
    LET st == IF stmt.kind = "ACL_OBJECT_SEQUENCE"
              THEN [r |-> r, remoteExecType |-> "EXEC_ON_COORDS"]
              ELSE IF stmt.kind = "ACL_OBJECT_RELATION" /\ stmt.flag2
              THEN GrantObjectsLoop([r |-> r, first |-> TRUE,
                                     type_local |-> "EXEC_ON_ALL_NODES",
                                     remoteExecType |-> "EXEC_ON_ALL_NODES"],
                                    stmt.objects)
              ELSE [r |-> r, remoteExecType |-> "EXEC_ON_ALL_NODES"]
        r1 == IF Origin
              THEN ExecUtilityStmtOnNodes(st.r, queryString, FALSE, st.remoteExecType)
              ELSE r
    IN  Leaf(r1, "ExecuteGrantStmt", "")

DefineStmtLeaf(kind) ==
    CASE kind = "OBJECT_AGGREGATE" -> "DefineAggregate"
      [] kind = "OBJECT_OPERATOR" -> "DefineOperator"
      [] kind = "OBJECT_TYPE" -> "DefineType"
      [] kind = "OBJECT_TSPARSER" -> "DefineTSParser"
      [] kind = "OBJECT_TSDICTIONARY" -> "DefineTSDictionary"
      [] kind = "OBJECT_TSTEMPLATE" -> "DefineTSTemplate"
      [] kind = "OBJECT_TSCONFIGURATION" -> "DefineTSConfiguration"
      [] kind = "OBJECT_COLLATION" -> "DefineCollation"
      [] OTHER -> ""

Do_T_DefineStmt(r, stmt, queryString) ==
    LET leaf == DefineStmtLeaf(stmt.kind)
        r1 == IF leaf = ""
              THEN Raise(r, InternalError("unrecognized define stmt type"))
              ELSE Leaf(r, leaf, "")
    IN  IF Coordinator
        THEN ExecUtilityStmtOnNodes(r1, queryString, FALSE, "EXEC_ON_ALL_NODES")
        ELSE r1

Do_T_AlterEnumStmt(r, stmt, isTopLevel) ==
    Leaf(PreventTransactionChain(r, isTopLevel, "ALTER TYPE ... ADD"),
         "AlterEnum", "")

\* stmt.flag is concurrent, stmt.flag2 is isconstraint
Do_T_IndexStmt(r, stmt, queryString, isTopLevel) ==
    LET r0 == IF PGXC /\ stmt.flag
              THEN FeatureNotSupported(r, "PGXC does not support concurrent INDEX yet")
              ELSE r
        r1 == IF stmt.flag
              THEN PreventTransactionChain(r0, isTopLevel, "CREATE INDEX CONCURRENTLY")
              ELSE r0
        r2 == MayFail(r1, "guard", "CheckRelationOwnership", "")
        r3 == Leaf(r2, "DefineIndex", "")
    IN  IF Coordinator /\ ~stmt.flag2 /\ ~IsConnFromCoord
        THEN ExecUtilityStmtOnNodes(r3, queryString, stmt.flag, "EXEC_ON_ALL_NODES")
        ELSE r3

Do_T_RuleStmt(r, stmt, queryString) ==
    LET r1 == Leaf(r, "DefineRule", "")
    IN  IF Origin
        THEN ExecUtilityStmtOnNodes(r1, queryString, FALSE,
                 IF stmt.relkind = "RELKIND_VIEW"
                 THEN "EXEC_ON_COORDS" ELSE "EXEC_ON_ALL_NODES")
        ELSE r1

RemoveFuncLeaf(kind) ==
    CASE kind = "OBJECT_FUNCTION" -> "RemoveFunction"
      [] kind = "OBJECT_AGGREGATE" -> "RemoveAggregate"
      [] kind = "OBJECT_OPERATOR" -> "RemoveOperator"
      [] OTHER -> ""

Do_T_RemoveFuncStmt(r, stmt, queryString) ==
    LET leaf == RemoveFuncLeaf(stmt.kind)
        r1 == IF leaf = ""
              THEN Raise(r, InternalError("unrecognized object type"))
              ELSE Leaf(r, leaf, "")
    IN  IF Coordinator
        THEN ExecUtilityStmtOnNodes(r1, queryString, FALSE, "EXEC_ON_ALL_NODES")
        ELSE r1

\* CREATE DATABASE that sends the statement before it creates the database
Do_T_CreatedbStmt_send_first(r, stmt, queryString, isTopLevel) ==
    LET r1 == PreventTransactionChain(r, isTopLevel, "CREATE DATABASE")
        r2 == IF Coordinator
              THEN ExecUtilityStmtOnNodes(r1, queryString, TRUE, "EXEC_ON_ALL_NODES")
              ELSE r1
    IN  Leaf(r2, "createdb", "")

Do_T_CreatedbStmt(r, stmt, queryString, isTopLevel) ==
    LET r1 == PreventTransactionChain(r, isTopLevel, "CREATE DATABASE")
        r2 == Leaf(r1, "createdb", "")
    IN  IF Coordinator
        THEN ExecUtilityStmtOnNodes(r2, queryString, TRUE, "EXEC_ON_ALL_NODES")
        ELSE r2

\* the text sprintf builds for the other coordinators
CleanConnectionQuery(dbname) ==
    "CLEAN CONNECTION TO ALL FOR DATABASE " \o dbname \o ";"

Do_T_DropdbStmt(r, stmt, queryString, isTopLevel) ==
    LET r1 == IF Origin
              THEN ExecUtilityStmtOnNodes(
                       Do(r, Call("remote", "DropDBCleanConnection", stmt.name)),
                       CleanConnectionQuery(stmt.name), TRUE, "EXEC_ON_COORDS")
              ELSE r
        r2 == PreventTransactionChain(r1, isTopLevel, "DROP DATABASE")
        r3 == Leaf(r2, "dropdb", "")
    IN  IF Coordinator
        THEN ExecUtilityStmtOnNodes(r3, queryString, TRUE, "EXEC_ON_ALL_NODES")
        ELSE r3

Do_T_NotifyStmt(r, stmt) ==
    Leaf(PreventCommandDuringRecovery(r, "NOTIFY"), "Async_Notify", "")

Do_T_ListenStmt(r, stmt) ==
    Leaf(CheckRestrictedOperation(PreventCommandDuringRecovery(r, "LISTEN"),
                                  "LISTEN"),
         "Async_Listen", "")

\* stmt.name is conditionname, "" for UNLISTEN *
Do_T_UnlistenStmt(r, stmt) ==
    Leaf(CheckRestrictedOperation(PreventCommandDuringRecovery(r, "UNLISTEN"),
                                  "UNLISTEN"),
         IF stmt.name # "" THEN "Async_Unlisten" ELSE "Async_UnlistenAll", "")

\* CLUSTER sent to every node
Do_T_ClusterStmt_on_all_nodes(r, stmt, queryString) ==
    LET r1 == Leaf(PreventCommandDuringRecovery(r, "CLUSTER"), "cluster", "")
    IN  IF Coordinator
        THEN ExecUtilityStmtOnNodes(r1, queryString, TRUE, "EXEC_ON_ALL_NODES")
        ELSE r1

Do_T_ClusterStmt(r, stmt, queryString) ==
    LET r1 == Leaf(PreventCommandDuringRecovery(r, "CLUSTER"), "cluster", "")
    IN  IF Coordinator
        THEN ExecUtilityStmtOnNodes(r1, queryString, TRUE, "EXEC_ON_DATANODES")
        ELSE r1

\* VACUUM that does not check for recovery
Do_T_VacuumStmt_in_recovery(r, stmt, queryString) ==
    LET r2 == IF Coordinator
              THEN ExecUtilityStmtOnNodes(r, queryString, TRUE, "EXEC_ON_DATANODES")
              ELSE r
    IN  Leaf(r2, "vacuum", "")

Do_T_VacuumStmt(r, stmt, queryString) ==
    LET r1 == PreventCommandDuringRecovery(r, "VACUUM")
        r2 == IF Coordinator
              THEN ExecUtilityStmtOnNodes(r1, queryString, TRUE, "EXEC_ON_DATANODES")
              ELSE r1
    IN  Leaf(r2, "vacuum", "")

\* a negative result of the pooler is raised as an error
PoolManagerSetCommand(r, is_local, queryString) ==
    LET r1 == MayFail(r, "remote", "PoolManagerSetCommand", "")
        r2 == [r1 EXCEPT !.calls[Len(r1.calls)].b = is_local,
                         !.calls[Len(r1.calls)].sql = queryString]
    IN  IF Failed(r) THEN r
        ELSE IF Failed(r1)
        THEN [r2 EXCEPT !.err = InternalError("Postgres-XC: ERROR SET query")]
        ELSE r2

\* stmt.flag is is_local
\* SET forwarded to the pooler whatever its scope
Do_T_VariableSetStmt_always_forward(r, stmt, queryString) ==
    LET r1 == Leaf(r, "ExecSetVariableStmt", "")
    IN  IF Origin
        THEN PoolManagerSetCommand(r1, stmt.flag, queryString)
        ELSE r1

Do_T_VariableSetStmt(r, stmt, queryString) ==
    LET r1 == Leaf(r, "ExecSetVariableStmt", "")
    IN  IF Origin /\ (~stmt.flag \/ ~IsTransactionBlock(r1))
        THEN PoolManagerSetCommand(r1, stmt.flag, queryString)
        ELSE r1

Do_T_DiscardStmt(r, stmt, queryString) ==
    LET r1 == Leaf(CheckRestrictedOperation(r, "DISCARD"), "DiscardCommand", "")
        r2 == PoolManagerSetCommand(r1, FALSE, queryString)
    IN  IF Origin /\ ~IsTransactionBlock(r1)
        THEN IF ~Failed(r1) /\ Failed(r2)
             THEN [r2 EXCEPT !.err = InternalError("Postgres-XC: ERROR DISCARD query")]
             ELSE r2
        ELSE r1

Do_T_CreateTrigStmt(r, stmt, queryString) ==
    LET r1 == Leaf(r, "CreateTrigger", "")
        r2 == IF PGXC
              THEN FeatureNotSupported(r1, "Postgres-XC does not support TRIGGER yet")
              ELSE r1
    IN  IF Coordinator
        THEN ExecUtilityStmtOnNodes(r2, queryString, FALSE, "EXEC_ON_ALL_NODES")
        ELSE r2

Do_T_DropPropertyStmt(r, stmt, queryString) ==
    CASE stmt.kind = "OBJECT_RULE" ->
             LET r1 == Leaf(r, "RemoveRewriteRule", "")
             IN  IF Origin
                 THEN ExecUtilityStmtOnNodes(r1, queryString, FALSE,
                          IF stmt.relkind = "RELKIND_VIEW"
                          THEN "EXEC_ON_COORDS" ELSE "EXEC_ON_ALL_NODES")
                 ELSE r1
      [] stmt.kind = "OBJECT_TRIGGER" ->
             LET r1 == Leaf(r, "DropTrigger", "")
             IN  IF Coordinator
                 THEN ExecUtilityStmtOnNodes(r1, queryString, FALSE,
                                             "EXEC_ON_ALL_NODES")
                 ELSE r1
      [] OTHER -> Raise(r, InternalError("unrecognized object type"))

Do_T_LockStmt(r, stmt, queryString, isTopLevel) ==
    LET r1 == RequireTransactionChain(r, isTopLevel, "LOCK TABLE")
        r2 == Leaf(r1, "LockTableCommand", "")
    IN  IF Coordinator
        THEN ExecUtilityStmtOnNodes(r2, queryString, FALSE, "EXEC_ON_ALL_NODES")
        ELSE r2

\* CHECKPOINT that asks for a forced checkpoint also during recovery
Do_T_CheckPointStmt_always_forced(r, stmt, queryString) ==
    LET r0 == IF ~r.su
              THEN Raise(r, UserError("ERRCODE_INSUFFICIENT_PRIVILEGE",
                                      "must be superuser to do CHECKPOINT", ""))
              ELSE r
        flags == <<"CHECKPOINT_IMMEDIATE", "CHECKPOINT_WAIT", "CHECKPOINT_FORCE">>
        r1 == Do(r0, [Call("leaf", "RequestCheckpoint", "") EXCEPT !.list = flags])
    IN  IF Coordinator
        THEN ExecUtilityStmtOnNodes(r1, queryString, TRUE, "EXEC_ON_DATANODES")
        ELSE r1

\* the flags of the checkpoint request go into the call's list
Do_T_CheckPointStmt(r, stmt, queryString) ==
    LET r0 == IF ~r.su
              THEN Raise(r, UserError("ERRCODE_INSUFFICIENT_PRIVILEGE",
                                      "must be superuser to do CHECKPOINT", ""))
              ELSE r
        flags == <<"CHECKPOINT_IMMEDIATE", "CHECKPOINT_WAIT">> \o
                 (IF recovery THEN <<>> ELSE <<"CHECKPOINT_FORCE">>)
        r1 == Do(r0, [Call("leaf", "RequestCheckpoint", "") EXCEPT !.list = flags])
    IN  IF Coordinator
        THEN ExecUtilityStmtOnNodes(r1, queryString, TRUE, "EXEC_ON_DATANODES")
        ELSE r1

\* the leaf command fills in the completion tag itself
Do_T_BarrierStmt(r, stmt, hasTag) ==
    SetCompletionTag(Leaf(r, "RequestBarrier", ""), hasTag, "BARRIER n")

\* REINDEX propagated without force-autocommit whatever its kind
Do_T_ReindexStmt_never_autocommit(r, stmt, queryString, isTopLevel) ==
    LET r0 == PreventCommandDuringRecovery(r, "REINDEX")
        r1 == CASE stmt.kind = "OBJECT_INDEX" -> Leaf(r0, "ReindexIndex", "")
                [] stmt.kind = "OBJECT_TABLE" -> Leaf(r0, "ReindexTable", "")
                [] stmt.kind = "OBJECT_DATABASE" ->
                       Leaf(PreventTransactionChain(r0, isTopLevel,
                                                    "REINDEX DATABASE"),
                            "ReindexDatabase", "")
                [] OTHER -> Raise(r0, InternalError("unrecognized object type"))
    IN  IF Coordinator
        THEN ExecUtilityStmtOnNodes(r1, queryString, FALSE, "EXEC_ON_ALL_NODES")
        ELSE r1

Do_T_ReindexStmt(r, stmt, queryString, isTopLevel) ==
    LET r0 == PreventCommandDuringRecovery(r, "REINDEX")
        r1 == CASE stmt.kind = "OBJECT_INDEX" -> Leaf(r0, "ReindexIndex", "")
                [] stmt.kind = "OBJECT_TABLE" -> Leaf(r0, "ReindexTable", "")
                [] stmt.kind = "OBJECT_DATABASE" ->
                       Leaf(PreventTransactionChain(r0, isTopLevel,
                                                    "REINDEX DATABASE"),
                            "ReindexDatabase", "")
                [] OTHER -> Raise(r0, InternalError("unrecognized object type"))
    IN  IF Coordinator
        THEN ExecUtilityStmtOnNodes(r1, queryString,
                                    stmt.kind = "OBJECT_DATABASE",
                                    "EXEC_ON_ALL_NODES")
        ELSE r1

\* stmt.name is the step's sql_statement, stmt.kind its exec_type
Do_T_RemoteQuery(r, stmt) ==
    LET r1 == AssertMacro(r, IS_PGXC_COORDINATOR, "IS_PGXC_COORDINATOR")
    IN  IF ~IsConnFromCoord
        THEN ExecRemoteUtility(r1, [combine_type |-> "COMBINE_TYPE_SAME",
                                    sql_statement |-> stmt.name,
                                    force_autocommit |-> FALSE,
                                    exec_type |-> stmt.kind])
        ELSE r1

Do_T_CleanConnStmt(r, stmt, queryString) ==
    LET r1 == AssertMacro(r, IS_PGXC_COORDINATOR, "IS_PGXC_COORDINATOR")
        r2 == Leaf(r1, "CleanConnection", "")
    IN  IF IS_PGXC_COORDINATOR
        THEN ExecUtilityStmtOnNodes(r2, queryString, TRUE, "EXEC_ON_COORDS")
        ELSE r2

(***************************************************************************)
(* Compound commands and the switch itself                                 *)
(***************************************************************************)
\* pgxc/planner: a RemoteQuery step is appended only on a coordinator that
\* is not itself serving another coordinator
AddRemoteQueryNode(stmts, queryString, remoteExecType) ==
    IF IS_PGXC_COORDINATOR /\ ~IsConnFromCoord
    THEN Append(stmts, [Node("T_RemoteQuery") EXCEPT !.name = queryString,
                                                     !.kind = remoteExecType])
    ELSE stmts

RECURSIVE standard_ProcessUtility(_, _, _, _, _)
RECURSIVE ProcessUtility(_, _, _, _, _)
RECURSIVE CreateStmtLoop(_, _, _)
RECURSIVE AlterTableLoop(_, _, _)

\* the loop of the T_CreateStmt branch with a CommandCounterIncrement after
\* every sub-statement, the last included
RECURSIVE CreateStmtLoop_cci_after_each(_, _, _)
CreateStmtLoop_cci_after_each(r, stmts, queryString) ==
    IF stmts = <<>> \/ Failed(r) THEN r
    ELSE LET stmt == Head(stmts)
             r1 == IF stmt.node = "T_CreateStmt"
                   THEN Leaf(CommandCounterIncrement(
                                 Leaf(r, "DefineRelation", "RELKIND_RELATION")),
                             "AlterTableCreateToastTable", "")
                   ELSE IF stmt.node = "T_CreateForeignTableStmt"
                   THEN Leaf(Leaf(r, "DefineRelation", "RELKIND_FOREIGN_TABLE"),
                             "CreateForeignTable", "")
                   ELSE ProcessUtility(r, stmt, queryString, FALSE, FALSE)
         IN  CreateStmtLoop_cci_after_each(CommandCounterIncrement(r1),
                                           Tail(stmts), queryString)

\* foreach(l, stmts) of the T_CreateStmt branch
\* a loop that, when a sub-statement fails, drops what the earlier ones made
RECURSIVE CreateStmtLoop_undoing(_, _, _)
CreateStmtLoop_undoing(r, stmts, queryString) ==
    IF stmts = <<>> \/ Failed(r) THEN r
    ELSE LET stmt == Head(stmts)
             r1 == IF stmt.node = "T_CreateStmt"
                   THEN Leaf(CommandCounterIncrement(
                                 Leaf(r, "DefineRelation", "RELKIND_RELATION")),
                             "AlterTableCreateToastTable", "")
                   ELSE IF stmt.node = "T_CreateForeignTableStmt"
                   THEN Leaf(Leaf(r, "DefineRelation", "RELKIND_FOREIGN_TABLE"),
                             "CreateForeignTable", "")
                   ELSE ProcessUtility(r, stmt, queryString, FALSE, FALSE)
             r2 == IF Tail(stmts) # <<>> THEN CommandCounterIncrement(r1) ELSE r1
         IN  IF Failed(r1)
             THEN [r1 EXCEPT !.calls = Append(@, Call("leaf", "performDeletion", ""))]
             ELSE CreateStmtLoop_undoing(r2, Tail(stmts), queryString)

CreateStmtLoop(r, stmts, queryString) ==
    IF stmts = <<>> \/ Failed(r) THEN r
    ELSE LET stmt == Head(stmts)
             r1 == IF stmt.node = "T_CreateStmt"
                   THEN Leaf(CommandCounterIncrement(
                                 Leaf(r, "DefineRelation", "RELKIND_RELATION")),
                             "AlterTableCreateToastTable", "")
                   ELSE IF stmt.node = "T_CreateForeignTableStmt"
                   THEN Leaf(Leaf(r, "DefineRelation", "RELKIND_FOREIGN_TABLE"),
                             "CreateForeignTable", "")
                   ELSE ProcessUtility(r, stmt, queryString, FALSE, FALSE)
             r2 == IF Tail(stmts) # <<>> THEN CommandCounterIncrement(r1) ELSE r1
         IN  CreateStmtLoop(r2, Tail(stmts), queryString)

\* parsetree.stmts is the list transformCreateStmt returns
Do_T_CreateStmt(r, parsetree, queryString, isTopLevel) ==
    LET r1 == MayFail(r, "transform", "transformCreateStmt", "")
        stmts == IF PGXC /\ isTopLevel
                 THEN AddRemoteQueryNode(parsetree.stmts, queryString,
                                         "EXEC_ON_ALL_NODES")
                 ELSE parsetree.stmts
    IN  CreateStmtLoop(r1, stmts, queryString)

\* foreach(l, stmts) of the T_AlterTableStmt branch
AlterTableLoop(r, stmts, queryString) ==
    IF stmts = <<>> \/ Failed(r) THEN r
    ELSE LET stmt == Head(stmts)
             r1 == IF stmt.node = "T_AlterTableStmt"
                   THEN Leaf(r, "AlterTable", "")
                   ELSE ProcessUtility(r, stmt, queryString, FALSE, FALSE)
             r2 == IF Tail(stmts) # <<>> THEN CommandCounterIncrement(r1) ELSE r1
         IN  AlterTableLoop(r2, Tail(stmts), queryString)

\* parsetree.stmts is the list transformAlterTableStmt returns; parsetree.kind
\* is stmt->relkind (an ObjectType), parsetree.relkind the catalog's relkind
Do_T_AlterTableStmt(r, parsetree, queryString, isTopLevel) ==
    LET r1 == MayFail(r, "transform", "transformAlterTableStmt", "")
        stmts == IF PGXC /\ isTopLevel
                 THEN AddRemoteQueryNode(parsetree.stmts, queryString,
                          RelationExecType(parsetree.kind, parsetree.relkind))
                 ELSE parsetree.stmts
    IN  AlterTableLoop(r1, stmts, queryString)

standard_ProcessUtility(r, parsetree, queryString, isTopLevel, hasTag) ==
    LET r0 == check_xact_readonly(r, parsetree)
        r1 == SetCompletionTag(r0, hasTag, "")
        node == parsetree.node
    IN  CASE node = "T_TransactionStmt" ->
                 Do_T_TransactionStmt(r1, parsetree, isTopLevel, hasTag)
          [] node = "T_PlannedStmt" -> Do_T_PlannedStmt(r1, parsetree)
          [] node = "T_ClosePortalStmt" -> Do_T_ClosePortalStmt(r1, parsetree)
          [] node = "T_FetchStmt" -> Do_T_FetchStmt(r1, parsetree, hasTag)
          [] node \in {"T_CreateStmt", "T_CreateForeignTableStmt"} ->
                 Do_T_CreateStmt(r1, parsetree, queryString, isTopLevel)
          [] node = "T_CreateTableSpaceStmt" ->
                 Do_T_CreateTableSpaceStmt(r1, parsetree, isTopLevel)
          [] node = "T_DropTableSpaceStmt" ->
                 Do_T_DropTableSpaceStmt(r1, parsetree, isTopLevel)
          [] node = "T_DropStmt" -> Do_T_DropStmt(r1, parsetree, queryString)
          [] node = "T_CommentStmt" -> Do_T_CommentStmt(r1, parsetree, queryString)
          [] node = "T_CopyStmt" -> Do_T_CopyStmt(r1, parsetree, hasTag)
          [] node = "T_PrepareStmt" -> Do_T_PrepareStmt(r1, parsetree)
          [] node = "T_ExecuteStmt" -> Do_T_ExecuteStmt(r1, parsetree, hasTag)
          [] node = "T_DeallocateStmt" -> Do_T_DeallocateStmt(r1, parsetree)
          [] node = "T_RenameStmt" -> Do_T_RenameStmt(r1, parsetree, queryString)
          [] node = "T_AlterObjectSchemaStmt" ->
                 Do_T_AlterObjectSchemaStmt(r1, parsetree, queryString)
          [] node = "T_AlterTableStmt" ->
                 Do_T_AlterTableStmt(r1, parsetree, queryString, isTopLevel)
          [] node = "T_AlterDomainStmt" ->
                 Do_T_AlterDomainStmt(r1, parsetree, queryString)
          [] node = "T_GrantStmt" -> Do_T_GrantStmt(r1, parsetree, queryString)
          [] node = "T_DefineStmt" -> Do_T_DefineStmt(r1, parsetree, queryString)
          [] node = "T_AlterEnumStmt" -> Do_T_AlterEnumStmt(r1, parsetree, isTopLevel)
          [] node = "T_IndexStmt" ->
                 Do_T_IndexStmt(r1, parsetree, queryString, isTopLevel)
          [] node = "T_RuleStmt" -> Do_T_RuleStmt(r1, parsetree, queryString)
          [] node = "T_RemoveFuncStmt" ->
                 Do_T_RemoveFuncStmt(r1, parsetree, queryString)
          [] node = "T_CreatedbStmt" ->
                 Do_T_CreatedbStmt(r1, parsetree, queryString, isTopLevel)
          [] node = "T_DropdbStmt" ->
                 Do_T_DropdbStmt(r1, parsetree, queryString, isTopLevel)
          [] node = "T_NotifyStmt" -> Do_T_NotifyStmt(r1, parsetree)
          [] node = "T_ListenStmt" -> Do_T_ListenStmt(r1, parsetree)
          [] node = "T_UnlistenStmt" -> Do_T_UnlistenStmt(r1, parsetree)
          [] node = "T_ClusterStmt" -> Do_T_ClusterStmt(r1, parsetree, queryString)
          [] node = "T_VacuumStmt" -> Do_T_VacuumStmt(r1, parsetree, queryString)
          [] node = "T_VariableSetStmt" ->
                 Do_T_VariableSetStmt(r1, parsetree, queryString)
          [] node = "T_DiscardStmt" -> Do_T_DiscardStmt(r1, parsetree, queryString)
          [] node = "T_CreateTrigStmt" ->
                 Do_T_CreateTrigStmt(r1, parsetree, queryString)
          [] node = "T_DropPropertyStmt" ->
                 Do_T_DropPropertyStmt(r1, parsetree, queryString)
          [] node = "T_LockStmt" ->
                 Do_T_LockStmt(r1, parsetree, queryString, isTopLevel)
          [] node = "T_CheckPointStmt" ->
                 Do_T_CheckPointStmt(r1, parsetree, queryString)
          [] node = "T_ReindexStmt" ->
                 Do_T_ReindexStmt(r1, parsetree, queryString, isTopLevel)
          [] PGXC /\ node = "T_BarrierStmt" -> Do_T_BarrierStmt(r1, parsetree, hasTag)
          [] PGXC /\ node = "T_RemoteQuery" -> Do_T_RemoteQuery(r1, parsetree)
          [] PGXC /\ node = "T_CleanConnStmt" ->
                 Do_T_CleanConnStmt(r1, parsetree, queryString)
          [] PlainLeaf(node) # "" -> Do_PlainLeaf(r1, parsetree)
          [] LeafThenNodes(node) # <<>> ->
                 Do_LeafThenNodes(r1, parsetree, queryString)
          [] OTHER -> Raise(r1, InternalError("unrecognized node type"))

\* ProcessUtility_hook is NULL: no plugin is loaded
ProcessUtility(r, parsetree, queryString, isTopLevel, hasTag) ==
    LET r0 == AssertMacro(r, queryString # "", "queryString != NULL")
        r1 == Do(r0, [Call("dispatch", "ProcessUtility", parsetree.node)
                         EXCEPT !.b = isTopLevel])
    IN  standard_ProcessUtility(r1, parsetree, queryString, isTopLevel, hasTag)

(***************************************************************************)
(* Statements and calling contexts the session is driven with              *)
(***************************************************************************)
MaxFailAt == 4

Kind(tag, kind) == [Node(tag) EXCEPT !.kind = kind]

Rel(tag, kind, relkind) == [Node(tag) EXCEPT !.kind = kind, !.relkind = relkind]

Named(tag, name) == [Node(tag) EXCEPT !.name = name]

Flags(tag, flag, flag2) == [Node(tag) EXCEPT !.flag = flag, !.flag2 = flag2]

List(tag, stmts) == [Node(tag) EXCEPT !.stmts = stmts]

Begin(kind, options) == [TransactionStmt(kind) EXCEPT !.options = options]

TwoPhase(kind, gid) == [TransactionStmt(kind) EXCEPT !.gid = gid]

Savepoint(kind, name) ==
    [TransactionStmt(kind) EXCEPT !.options = <<DefElem("savepoint_name", name)>>]

BeginOptionLists ==
    LET iso == DefElem("transaction_isolation", "serializable")
        ro  == DefElem("transaction_read_only", "true")
        def == DefElem("transaction_deferrable", "true")
    IN  {<<>>, <<ro>>, <<iso, def>>, <<iso, ro, def>>}

TransactionStmts ==
    {Begin("TRANS_STMT_BEGIN", o) : o \in BeginOptionLists}
    \cup {Begin("TRANS_STMT_START", <<>>),
          TransactionStmt("TRANS_STMT_COMMIT"),
          TransactionStmt("TRANS_STMT_ROLLBACK")}
    \cup {TwoPhase(k, g) : k \in {"TRANS_STMT_PREPARE", "TRANS_STMT_COMMIT_PREPARED",
                                  "TRANS_STMT_ROLLBACK_PREPARED"},
                           g \in Gids}
    \cup {Savepoint(k, n) : k \in {"TRANS_STMT_SAVEPOINT", "TRANS_STMT_RELEASE",
                                   "TRANS_STMT_ROLLBACK_TO"},
                            n \in SavepointNames}

ObjectTypes ==
    {"OBJECT_TABLE", "OBJECT_SEQUENCE", "OBJECT_VIEW", "OBJECT_INDEX",
     "OBJECT_FOREIGN_TABLE", "OBJECT_TYPE", "OBJECT_DOMAIN", "OBJECT_COLLATION",
     "OBJECT_CONVERSION", "OBJECT_SCHEMA", "OBJECT_TSPARSER",
     "OBJECT_TSDICTIONARY", "OBJECT_TSTEMPLATE", "OBJECT_TSCONFIGURATION",
     "OBJECT_EXTENSION", "OBJECT_AGGREGATE", "OBJECT_OPERATOR",
     "OBJECT_FUNCTION", "OBJECT_RULE", "OBJECT_TRIGGER", "OBJECT_DATABASE",
     "OBJECT_ROLE"}

\* the lists parse analysis returns for CREATE TABLE and ALTER TABLE
CreateStmtLists ==
    {<<Node("T_CreateStmt")>>,
     <<Node("T_CreateSeqStmt"), Node("T_CreateStmt"),
       Flags("T_IndexStmt", FALSE, TRUE)>>,
     <<Node("T_CreateStmt"),
       List("T_AlterTableStmt", <<Node("T_AlterTableStmt")>>)>>}

AlterTableLists ==
    {<<Node("T_AlterTableStmt")>>,
     <<Node("T_AlterTableStmt"), Flags("T_IndexStmt", FALSE, FALSE)>>}

RelationForms ==
    {<<"OBJECT_TABLE", "RELKIND_RELATION">>, <<"OBJECT_TABLE", "RELKIND_SEQUENCE">>,
     <<"OBJECT_TABLE", "RELKIND_VIEW">>,
     <<"OBJECT_SEQUENCE", "RELKIND_SEQUENCE">>, <<"OBJECT_VIEW", "RELKIND_VIEW">>,
     <<"OBJECT_INDEX", "RELKIND_INDEX">>}

GrantStmts ==
    {Kind("T_GrantStmt", "ACL_OBJECT_SEQUENCE"),
     Kind("T_GrantStmt", "ACL_OBJECT_FUNCTION"),
     Kind("T_GrantStmt", "ACL_OBJECT_RELATION")}
    \cup {[Kind("T_GrantStmt", "ACL_OBJECT_RELATION")
              EXCEPT !.flag2 = TRUE, !.objects = o] :
          o \in {<<"RELKIND_RELATION">>, <<"RELKIND_SEQUENCE">>,
                 <<"RELKIND_RELATION", "RELKIND_RELATION">>,
                 <<"RELKIND_RELATION", "RELKIND_SEQUENCE">>,
                 <<"RELKIND_SEQUENCE", "RELKIND_VIEW">>,
                 <<"RELKIND_VIEW", "RELKIND_RELATION", "RELKIND_VIEW">>}}

SimpleNodes ==
    {"T_ClosePortalStmt", "T_CreateSchemaStmt", "T_CreateTableSpaceStmt",
     "T_DropTableSpaceStmt", "T_AlterTableSpaceOptionsStmt",
     "T_CreateExtensionStmt", "T_AlterExtensionStmt",
     "T_AlterExtensionContentsStmt", "T_CreateFdwStmt", "T_AlterFdwStmt",
     "T_DropFdwStmt", "T_CreateForeignServerStmt", "T_AlterForeignServerStmt",
     "T_DropForeignServerStmt", "T_CreateUserMappingStmt",
     "T_AlterUserMappingStmt", "T_DropUserMappingStmt", "T_TruncateStmt",
     "T_SecLabelStmt", "T_CopyStmt", "T_PrepareStmt", "T_ExecuteStmt",
     "T_DeallocateStmt", "T_AlterOwnerStmt", "T_GrantRoleStmt",
     "T_AlterDefaultPrivilegesStmt", "T_CompositeTypeStmt", "T_CreateEnumStmt",
     "T_AlterEnumStmt", "T_ViewStmt", "T_CreateFunctionStmt",
     "T_AlterFunctionStmt", "T_CreateSeqStmt", "T_AlterSeqStmt", "T_DoStmt",
     "T_CreatedbStmt", "T_AlterDatabaseStmt", "T_AlterDatabaseSetStmt",
     "T_NotifyStmt", "T_ListenStmt", "T_LoadStmt", "T_ClusterStmt",
     "T_VacuumStmt", "T_ExplainStmt", "T_VariableShowStmt", "T_DiscardStmt",
     "T_CreateTrigStmt", "T_CreatePLangStmt", "T_DropPLangStmt",
     "T_CreateDomainStmt", "T_CreateRoleStmt", "T_AlterRoleStmt",
     "T_AlterRoleSetStmt", "T_DropRoleStmt", "T_DropOwnedStmt",
     "T_ReassignOwnedStmt", "T_LockStmt", "T_ConstraintsSetStmt",
     "T_CheckPointStmt", "T_CreateConversionStmt", "T_CreateCastStmt",
     "T_DropCastStmt", "T_CreateOpClassStmt", "T_CreateOpFamilyStmt",
     "T_AlterOpFamilyStmt", "T_RemoveOpClassStmt", "T_RemoveOpFamilyStmt",
     "T_AlterTSDictionaryStmt", "T_AlterTSConfigurationStmt",
     "T_BarrierStmt", "T_CleanConnStmt", "T_SelectStmt"}

\* node types that exist only in a clustered build
PGXCNodes == {"T_BarrierStmt", "T_RemoteQuery", "T_CleanConnStmt"}

UtilityStmts ==
    {Node(n) : n \in SimpleNodes}
    \cup {List("T_PlannedStmt", <<Node("T_DeclareCursorStmt")>>),
          List("T_PlannedStmt", <<>>),
          Flags("T_FetchStmt", FALSE, FALSE), Flags("T_FetchStmt", TRUE, FALSE)}
    \cup {List("T_CreateStmt", l) : l \in CreateStmtLists}
    \cup {List("T_CreateForeignTableStmt", <<Node("T_CreateForeignTableStmt")>>)}
    \cup {Kind("T_DropStmt", k) :
          k \in ObjectTypes \ {"OBJECT_AGGREGATE", "OBJECT_OPERATOR",
                               "OBJECT_FUNCTION", "OBJECT_RULE",
                               "OBJECT_TRIGGER", "OBJECT_DATABASE"}}
    \cup {Kind("T_CommentStmt", k) :
          k \in {"OBJECT_TABLE", "OBJECT_SEQUENCE", "OBJECT_VIEW", "OBJECT_RULE"}}
    \cup {Rel(n, f[1], f[2]) :
          n \in {"T_RenameStmt", "T_AlterObjectSchemaStmt"}, f \in RelationForms}
    \cup {[Rel("T_AlterTableStmt", f[1], f[2]) EXCEPT !.stmts = l] :
          f \in RelationForms \ {<<"OBJECT_INDEX", "RELKIND_INDEX">>},
          l \in AlterTableLists}
    \cup {Kind("T_AlterDomainStmt", k) : k \in {"T", "N", "O", "C", "X", "?"}}
    \cup GrantStmts
    \cup {Kind("T_DefineStmt", k) :
          k \in {"OBJECT_AGGREGATE", "OBJECT_OPERATOR", "OBJECT_TYPE",
                 "OBJECT_TSPARSER", "OBJECT_TSDICTIONARY", "OBJECT_TSTEMPLATE",
                 "OBJECT_TSCONFIGURATION", "OBJECT_COLLATION", "OBJECT_ROLE"}}
    \cup {Flags("T_IndexStmt", c, k) : c \in BOOLEAN, k \in BOOLEAN}
    \cup {Rel(n, k, rk) : n \in {"T_RuleStmt"}, k \in {""},
                          rk \in {"RELKIND_RELATION", "RELKIND_VIEW"}}
    \cup {Kind("T_RemoveFuncStmt", k) :
          k \in {"OBJECT_FUNCTION", "OBJECT_AGGREGATE", "OBJECT_OPERATOR",
                 "OBJECT_ROLE"}}
    \cup {Named("T_DropdbStmt", "db"), Named("T_UnlistenStmt", ""),
          Named("T_UnlistenStmt", "c")}
    \cup {Flags("T_VariableSetStmt", l, FALSE) : l \in BOOLEAN}
    \cup {Rel("T_DropPropertyStmt", "OBJECT_RULE", rk) :
          rk \in {"RELKIND_RELATION", "RELKIND_VIEW"}}
    \cup {Kind("T_DropPropertyStmt", k) : k \in {"OBJECT_TRIGGER", "OBJECT_ROLE"}}
    \cup {Kind("T_ReindexStmt", k) :
          k \in {"OBJECT_INDEX", "OBJECT_TABLE", "OBJECT_DATABASE", "OBJECT_ROLE"}}
    \cup {[Named("T_RemoteQuery", QueryString) EXCEPT !.kind = "EXEC_ON_ALL_NODES"]}

Statements == TransactionStmts \cup UtilityStmts

\* the calling contexts a statement is tried in: a context flag is varied
\* only for the statements whose branch reads it
ReadsTopLevel(stmt) ==
    \/ stmt.node \in {"T_CreateStmt", "T_CreateForeignTableStmt",
                      "T_CreateTableSpaceStmt", "T_DropTableSpaceStmt",
                      "T_AlterTableStmt", "T_AlterEnumStmt", "T_IndexStmt",
                      "T_CreatedbStmt", "T_DropdbStmt", "T_LockStmt",
                      "T_ReindexStmt"}
    \/ /\ stmt.node = "T_TransactionStmt"
       /\ stmt.kind \in {"TRANS_STMT_COMMIT_PREPARED",
                         "TRANS_STMT_ROLLBACK_PREPARED", "TRANS_STMT_SAVEPOINT",
                         "TRANS_STMT_RELEASE", "TRANS_STMT_ROLLBACK_TO"}

ReadsTag(stmt) ==
    \/ stmt.node \in {"T_FetchStmt", "T_CopyStmt", "T_ExecuteStmt",
                      "T_BarrierStmt", "T_CreateRoleStmt", "T_ExplainStmt"}
    \/ /\ stmt.node = "T_TransactionStmt"
       /\ stmt.kind \in {"TRANS_STMT_COMMIT", "TRANS_STMT_PREPARE",
                         "TRANS_STMT_ROLLBACK"}

ReadsRestricted(stmt) ==
    stmt.node \in {"T_ClosePortalStmt", "T_PrepareStmt", "T_DeallocateStmt",
                   "T_ListenStmt", "T_UnlistenStmt", "T_DiscardStmt",
                   "T_FetchStmt", "T_NotifyStmt"}

ReadsSuperuser(stmt) == stmt.node \in {"T_CheckPointStmt", "T_VacuumStmt"}

ReadsCassert(stmt) ==
    stmt.node \in {"T_RemoteQuery", "T_CleanConnStmt", "T_BarrierStmt"}

FailAts(stmt) ==
    IF stmt.node = "T_TransactionStmt" THEN {0}
    ELSE IF stmt.stmts # <<>> THEN 0..MaxFailAt
    ELSE IF stmt.node \in {"T_VariableSetStmt", "T_DiscardStmt"} THEN 0..2
    ELSE 0..1

Varied(reads, default) == IF reads THEN BOOLEAN ELSE {default}

Inputs ==
    UNION {{[stmt |-> stmt, isTopLevel |-> t, hasTag |-> h, sec |-> c,
             su |-> u, cassert |-> a, failAt |-> f, opLocal |-> o] :
            t \in Varied(ReadsTopLevel(stmt), TRUE),
            h \in Varied(ReadsTag(stmt), TRUE),
            c \in Varied(ReadsRestricted(stmt), FALSE),
            u \in Varied(ReadsSuperuser(stmt), TRUE),
            a \in Varied(ReadsCassert(stmt), FALSE),
            f \in FailAts(stmt),
            o \in Varied(stmt.node = "T_TransactionStmt"
                         /\ stmt.kind = "TRANS_STMT_PREPARE", FALSE)} :
           stmt \in Statements}

\* IsTransactionExitStmt of the caller (tcop/postgres.c)
IsTransactionExitStmt(stmt) ==
    /\ stmt.node = "T_TransactionStmt"
    /\ stmt.kind \in {"TRANS_STMT_COMMIT", "TRANS_STMT_PREPARE",
                      "TRANS_STMT_ROLLBACK", "TRANS_STMT_ROLLBACK_TO"}

\* what the caller can hand to ProcessUtility in the current state
Admissible(in) ==
    /\ blockAborted => IsTransactionExitStmt(in.stmt)
    /\ in.stmt.node \in PGXCNodes => PGXC
    /\ in.stmt.node = "T_RemoteQuery" => IS_PGXC_COORDINATOR
    /\ in.opLocal => Origin
    /\ (in.stmt.node = "T_TransactionStmt" /\ in.stmt.kind = "TRANS_STMT_SAVEPOINT")
           => Len(savepoints) < MaxSavepoints

\* the dispatcher's view of the session when it is entered
Start(in) ==
    [ro |-> XactReadOnly, block |-> blockState, aborted |-> blockAborted,
     savepoints |-> savepoints, local |-> preparedLocal,
     remote |-> preparedRemote, err |-> NoError,
     tag |-> IF in.hasTag THEN "<unset>" ELSE "<null>",
     calls |-> <<>>, lock |-> FALSE, nleaf |-> 0, failAt |-> in.failAt,
     sec |-> in.sec, su |-> in.su, cassert |-> in.cassert,
     opLocal |-> in.opLocal, ret |-> TRUE]

NoDispatch == [active |-> FALSE]

(***************************************************************************)
(* The session script BEGIN; SAVEPOINT a; ROLLBACK TO a; COMMIT, run from  *)
(* an idle session: script holds the outcome of each step run so far.      *)
(***************************************************************************)
ScriptStmts ==
    <<Begin("TRANS_STMT_BEGIN", <<>>), Savepoint("TRANS_STMT_SAVEPOINT", "a"),
      Savepoint("TRANS_STMT_ROLLBACK_TO", "a"),
      TransactionStmt("TRANS_STMT_COMMIT")>>

ScriptOutcome(r) == IF Failed(r) \/ ~r.ret THEN "failed" ELSE "ok"

ScriptAfter(in, r) ==
    LET k == Len(script)
    IN  IF /\ k > 0 /\ k < Len(ScriptStmts)
           /\ script[k] = "ok"
           /\ in.isTopLevel
           /\ in.stmt = ScriptStmts[k + 1]
        THEN Append(script, ScriptOutcome(r))
        ELSE IF in.isTopLevel /\ in.stmt = ScriptStmts[1] /\ blockState = "Idle"
        THEN <<ScriptOutcome(r)>>
        ELSE <<>>

(***************************************************************************)
(* The state machine                                                       *)
(***************************************************************************)
Deployments ==
    {<<FALSE, FALSE, FALSE>>,     \* plain build, single node
     <<TRUE, TRUE, FALSE>>,       \* coordinator serving a client (origin)
     <<TRUE, TRUE, TRUE>>,        \* coordinator serving a coordinator (relay)
     <<TRUE, FALSE, TRUE>>,       \* datanode serving a coordinator (relay)
     <<TRUE, FALSE, FALSE>>}      \* datanode serving a client directly

Init ==
    /\ \E d \in Deployments :
           /\ PGXC = d[1]
           /\ IS_PGXC_COORDINATOR = d[2]
           /\ connFromCoord = d[3]
    /\ recovery \in BOOLEAN
    /\ XactReadOnly = recovery
    /\ blockState = "Idle"
    /\ blockAborted = FALSE
    /\ savepoints = <<>>
    /\ preparedLocal = {}
    /\ preparedRemote = {}
    /\ last = NoDispatch
    /\ script = <<>>
    /\ prepared_queries = NoPreparedStatements
    /\ classified = NoClassification

\* one call of ProcessUtility by the caller's command loop
Dispatch ==
    /\ ~last.active
    /\ \E in \in Inputs :
           /\ Admissible(in)
           /\ LET r == ProcessUtility(Start(in), in.stmt, QueryString,
                                      in.isTopLevel, in.hasTag)
              IN  /\ XactReadOnly' = r.ro
                  /\ blockState' = r.block
                  /\ blockAborted' = r.aborted
                  /\ savepoints' = r.savepoints
                  /\ preparedLocal' = r.local
                  /\ preparedRemote' = r.remote
                  /\ last' = [active |-> TRUE, in |-> in, pre |-> Start(in),
                              post |-> r]
                  /\ script' = ScriptAfter(in, r)
    /\ UNCHANGED <<config, prepared_queries, classified>>

\* the caller takes the outcome: an error inside a block leaves the block
\* aborted until the client ends it
ReadyForQuery ==
    /\ last.active
    /\ blockAborted' = (blockAborted \/
                        (Failed(last.post) /\ blockState = "InBlock"))
    /\ last' = NoDispatch
    /\ UNCHANGED <<config, XactReadOnly, blockState, savepoints,
                   preparedLocal, preparedRemote, script, prepared_queries,
                   classified>>

Next == Dispatch \/ ReadyForQuery

Spec == Init /\ [][Next]_vars

(***************************************************************************)
(* Properties.  Each is stated over the dispatch the caller has not yet    *)
(* consumed: last.in is what was dispatched, last.pre the session when the *)
(* dispatcher was entered, last.post the session, error, completion tag    *)
(* and calls when it returned or raised.                                   *)
(***************************************************************************)
CallsTo(calls, fn) == {i \in 1..Len(calls) : calls[i].fn = fn}

CallsOfClass(calls, class) == {i \in 1..Len(calls) : calls[i].class = class}

IsTransactionKind(stmt, kinds) ==
    stmt.node = "T_TransactionStmt" /\ stmt.kind \in kinds

ReadOnlyMessage == "cannot execute %s in a read-only transaction"

RejectedAsReadOnly(r) == r.err.sev = "ERROR" /\ r.err.msg = ReadOnlyMessage

\* C1: in a read-only session a command on the deny-list of
\* check_xact_readonly (DDL, GRANT, TRUNCATE, COMMENT, SECURITY LABEL, ...)
\* fails with the read-only-transaction error naming the command's tag, before
\* any leaf command runs or anything is sent; a command not on the list
\* (transaction control, CLUSTER, VACUUM, REINDEX, SET, SHOW, ...) is never
\* rejected by this guard, and outside read-only mode the guard never fails.
C1_ReadOnlyGuard ==
    /\ {"T_CreateStmt", "T_AlterTableStmt", "T_DropStmt", "T_GrantStmt",
        "T_TruncateStmt", "T_CommentStmt", "T_SecLabelStmt"}
           \subseteq ReadOnlyDenyList
    /\ {"T_TransactionStmt", "T_ClusterStmt", "T_VacuumStmt", "T_ReindexStmt",
        "T_VariableSetStmt", "T_VariableShowStmt"} \cap ReadOnlyDenyList = {}
    /\ last.active =>
         LET stmt == last.in.stmt
             post == last.post
         IN  /\ (last.pre.ro /\ stmt.node \in ReadOnlyDenyList) =>
                    /\ post.err = UserError("ERRCODE_READ_ONLY_SQL_TRANSACTION",
                                            ReadOnlyMessage,
                                            CreateCommandTag(stmt))
                    /\ post.err.cmd # ""
                    /\ \A i \in 1..Len(post.calls) :
                           post.calls[i].class = "dispatch"
                    /\ post.tag = last.pre.tag
             /\ stmt.node \notin ReadOnlyDenyList => ~RejectedAsReadOnly(post)
             /\ ~last.pre.ro => ~RejectedAsReadOnly(post)

C1_Witness ==
    /\ last.active
    /\ ~recovery
    /\ last.pre.ro
    /\ last.in.stmt.node = "T_TruncateStmt"
    /\ RejectedAsReadOnly(last.post)
    /\ last.post.err.cmd = "TRUNCATE TABLE"

\* C2: in a clustered build, a dispatch on a connection that comes from a
\* coordinator never makes a call that reaches another node or the pooler,
\* whatever the command and the session state.
C2_RelayNeverSends ==
    (last.active /\ PGXC /\ connFromCoord) =>
        CallsOfClass(last.post.calls, "remote") = {}

C2_Witness ==
    /\ last.active
    /\ PGXC /\ IS_PGXC_COORDINATOR /\ connFromCoord
    /\ last.in.stmt.node = "T_CreatedbStmt"
    /\ ~Failed(last.post)
    /\ CallsTo(last.post.calls, "createdb") # {}

\* PGXCNodePrepare was called and returned
HandshakeReturned(post) ==
    /\ CallsTo(post.calls, "PGXCNodePrepare") # {}
    /\ ~(Failed(post) /\ post.calls[Len(post.calls)].fn = "PGXCNodePrepare")

\* C3: PREPARE TRANSACTION in a clustered build, once past the recovery guard:
\* on a connection from a coordinator it calls PrepareTransactionBlock and
\* never EndTransactionBlock; on an originating coordinator PGXCNodePrepare
\* is the first thing called, and PrepareTransactionBlock is called, after
\* it, exactly when it returned that a local record is required.
C3_PrepareRelayAndOrigin ==
    (last.active /\ PGXC /\ ~recovery
       /\ IsTransactionKind(last.in.stmt, {"TRANS_STMT_PREPARE"})) =>
        LET calls == last.post.calls
            local == CallsTo(calls, "PrepareTransactionBlock")
            commit == CallsTo(calls, "EndTransactionBlock")
            handshake == CallsTo(calls, "PGXCNodePrepare")
        IN  /\ connFromCoord =>
                /\ Cardinality(local) = 1
                /\ commit = {}
                /\ handshake = {}
                /\ \A i \in local : calls[i].arg = last.in.stmt.gid
            /\ Origin =>
                /\ handshake = {2}
                /\ calls[2].arg = last.in.stmt.gid
                /\ HandshakeReturned(last.post) =>
                       /\ (local # {}) = last.in.opLocal
                       /\ Cardinality(local) <= 1
                       /\ \A i \in local : i > 2

C3_Witness ==
    /\ last.active
    /\ PGXC /\ connFromCoord
    /\ IsTransactionKind(last.in.stmt, {"TRANS_STMT_PREPARE"})
    /\ last.pre.block = "InBlock" /\ ~last.pre.aborted
    /\ ~Failed(last.post)
    /\ last.in.stmt.gid \in preparedLocal \ last.pre.local

\* C4: PREPARE TRANSACTION on an originating coordinator whose handshake
\* returned that no local record is needed: EndTransactionBlock is called
\* once, told not to contact the GTM, PrepareTransactionBlock is not called,
\* no two-phase record appears on this node, no error is raised, and the
\* completion tag (when the caller gave a buffer) is "ROLLBACK" exactly when
\* EndTransactionBlock returned false.
C4_PrepareWithoutLocalRecord ==
    (last.active /\ Origin
       /\ IsTransactionKind(last.in.stmt, {"TRANS_STMT_PREPARE"})
       /\ HandshakeReturned(last.post) /\ ~last.in.opLocal) =>
        LET calls == last.post.calls
            commit == CallsTo(calls, "EndTransactionBlock")
        IN  /\ Cardinality(commit) = 1
            /\ \A i \in commit : ~calls[i].b
            /\ CallsTo(calls, "PrepareTransactionBlock") = {}
            /\ last.post.local = last.pre.local
            /\ preparedLocal = last.pre.local
            /\ ~Failed(last.post)
            /\ last.post.block = "Idle"
            /\ last.post.tag = IF ~last.in.hasTag THEN "<null>"
                               ELSE IF last.post.ret THEN "" ELSE "ROLLBACK"

C4_Witness ==
    /\ last.active
    /\ Origin
    /\ IsTransactionKind(last.in.stmt, {"TRANS_STMT_PREPARE"})
    /\ ~last.in.opLocal
    /\ last.pre.block = "InBlock" /\ last.pre.aborted
    /\ ~Failed(last.post)
    /\ last.post.tag = "ROLLBACK"
    /\ CallsTo(last.post.calls, "EndTransactionBlock") # {}

RemoteResolution ==
    {"pgxc_node_commit_prepared", "pgxc_node_rollback_prepared"}

\* C5 (as the specification states it): COMMIT PREPARED and ROLLBACK PREPARED
\* on an originating coordinator resolve the gid on the remote nodes before
\* they resolve it locally, with BarrierLock held from the remote resolution
\* to the local one.
C5_LockHeldAcrossResolution ==
    (last.active /\ Origin
       /\ IsTransactionKind(last.in.stmt, {"TRANS_STMT_COMMIT_PREPARED",
                                           "TRANS_STMT_ROLLBACK_PREPARED"})) =>
        LET calls == last.post.calls
        IN  \A j \in CallsTo(calls, "FinishPreparedTransaction") :
                \E i \in 1..(j - 1) :
                    /\ calls[i].fn \in RemoteResolution
                    /\ \A k \in i..j : calls[k].locked

\* the part of C5 the two statements share: remote before local
C5_RemoteBeforeLocal ==
    (last.active /\ Origin
       /\ IsTransactionKind(last.in.stmt, {"TRANS_STMT_COMMIT_PREPARED",
                                           "TRANS_STMT_ROLLBACK_PREPARED"})) =>
        LET calls == last.post.calls
        IN  \A j \in CallsTo(calls, "FinishPreparedTransaction") :
                \E i \in 1..(j - 1) : calls[i].fn \in RemoteResolution

\* C6: COMMIT PREPARED and ROLLBACK PREPARED on a connection from a
\* coordinator make no remote call and at most one FinishPreparedTransaction
\* call: exactly one, for the statement's gid and with isCommit true for
\* COMMIT PREPARED and false for ROLLBACK PREPARED, whenever the
\* transaction-block and recovery guards let the statement through.
C6_RelayResolvesLocally ==
    (last.active /\ PGXC /\ connFromCoord
       /\ IsTransactionKind(last.in.stmt, {"TRANS_STMT_COMMIT_PREPARED",
                                           "TRANS_STMT_ROLLBACK_PREPARED"})) =>
        LET calls == last.post.calls
            finish == CallsTo(calls, "FinishPreparedTransaction")
            guarded == \/ recovery
                       \/ last.pre.block = "InBlock"
                       \/ ~last.in.isTopLevel
        IN  /\ CallsOfClass(calls, "remote") = {}
            /\ CallsOfClass(calls, "lock") = {}
            /\ Cardinality(finish) = IF guarded THEN 0 ELSE 1
            /\ guarded => Failed(last.post)
            /\ \A i \in finish :
                   /\ calls[i].arg = last.in.stmt.gid
                   /\ calls[i].b =
                          (last.in.stmt.kind = "TRANS_STMT_COMMIT_PREPARED")

C6_Witness ==
    /\ last.active
    /\ PGXC /\ connFromCoord
    /\ IsTransactionKind(last.in.stmt, {"TRANS_STMT_ROLLBACK_PREPARED"})
    /\ last.in.stmt.gid \in last.pre.local
    /\ ~Failed(last.post)
    /\ last.in.stmt.gid \notin preparedLocal

\* C7 (as the specification states it): COMMIT PREPARED of a gid that was
\* never prepared fails, and COMMIT PREPARED of a gid prepared earlier in the
\* session succeeds and leaves no two-phase record of it, whatever the build
\* and the node's role.
C7_CommitPreparedByGid ==
    (last.active
       /\ IsTransactionKind(last.in.stmt, {"TRANS_STMT_COMMIT_PREPARED"})) =>
        LET gid == last.in.stmt.gid
            known == gid \in last.pre.local \cup last.pre.remote
            guarded == \/ recovery
                       \/ last.pre.block = "InBlock"
                       \/ ~last.in.isTopLevel
        IN  /\ ~known => Failed(last.post)
            /\ (known /\ ~guarded) =>
                   /\ ~Failed(last.post)
                   /\ gid \notin preparedLocal
                   /\ gid \notin preparedRemote

\* C8: COMMIT raises no error; with a completion-tag buffer the tag is
\* "ROLLBACK" when EndTransactionBlock returned false (as it does for an
\* aborted block) and empty when it returned true.
C8_CommitReportsInTag ==
    (last.active /\ IsTransactionKind(last.in.stmt, {"TRANS_STMT_COMMIT"})) =>
        /\ ~Failed(last.post)
        /\ Cardinality(CallsTo(last.post.calls, "EndTransactionBlock")) = 1
        /\ (last.pre.block = "InBlock" /\ last.pre.aborted) => ~last.post.ret
        /\ last.post.tag = IF ~last.in.hasTag THEN "<null>"
                           ELSE IF last.post.ret THEN "" ELSE "ROLLBACK"

C8_Witness ==
    /\ last.active
    /\ IsTransactionKind(last.in.stmt, {"TRANS_STMT_COMMIT"})
    /\ last.pre.block = "InBlock" /\ last.pre.aborted
    /\ ~Failed(last.post)
    /\ last.post.tag = "ROLLBACK"

\* C9: BEGIN and START TRANSACTION take an idle session into a block; COMMIT
\* leaves the session idle whatever it reports; ROLLBACK leaves the session
\* idle from every state, passes no guard and raises no error.
C9_BlockTransitions ==
    last.active =>
        /\ (IsTransactionKind(last.in.stmt, {"TRANS_STMT_BEGIN", "TRANS_STMT_START"})
              /\ last.pre.block = "Idle") =>
               ~Failed(last.post) /\ blockState = "InBlock" /\ ~blockAborted
        /\ IsTransactionKind(last.in.stmt, {"TRANS_STMT_COMMIT"}) =>
               blockState = "Idle" /\ savepoints = <<>>
        /\ IsTransactionKind(last.in.stmt, {"TRANS_STMT_ROLLBACK"}) =>
               /\ ~Failed(last.post)
               /\ CallsOfClass(last.post.calls, "guard") = {}
               /\ blockState = "Idle" /\ ~blockAborted /\ savepoints = <<>>

C9_Witness ==
    /\ last.active
    /\ IsTransactionKind(last.in.stmt, {"TRANS_STMT_ROLLBACK"})
    /\ last.pre.block = "InBlock" /\ last.pre.aborted
    /\ blockState = "Idle"

\* C10 (as the specification states it): every statement of BEGIN;
\* SAVEPOINT a; ROLLBACK TO a; COMMIT, run in that order from an idle
\* session, succeeds.
C10_ScriptSucceeds == \A i \in 1..Len(script) : script[i] = "ok"

\* C10, amended: in a build without PGXC every statement of BEGIN;
\* SAVEPOINT a; ROLLBACK TO a; COMMIT, run in that order from an idle
\* session, succeeds; in a PGXC build BEGIN succeeds and SAVEPOINT raises
\* "SAVEPOINT is not yet supported.".
C10_ScriptSucceedsUnclustered ==
    /\ ~PGXC => \A i \in 1..Len(script) : script[i] = "ok"
    /\ PGXC => /\ Len(script) <= 2
               /\ Len(script) >= 1 => script[1] = "ok"
               /\ Len(script) = 2 => script[2] = "failed"
    /\ (last.active /\ PGXC
          /\ IsTransactionKind(last.in.stmt, {"TRANS_STMT_SAVEPOINT"})) =>
           /\ last.post.err.msg = "SAVEPOINT is not yet supported."
           /\ CallsTo(last.post.calls, "DefineSavepoint") = {}

C10_Witness ==
    /\ ~PGXC
    /\ script = <<"ok", "ok", "ok", "ok">>
    /\ blockState = "Idle"


(***************************************************************************)
(* Guards on the transaction block                                         *)
(***************************************************************************)
RequiresBlockMessage == "%s can only be used in transaction blocks"

\* the statements that call RequireTransactionChain, with the name they pass
BlockRequiredName(stmt) ==
    CASE IsTransactionKind(stmt, {"TRANS_STMT_SAVEPOINT"}) -> "SAVEPOINT"
      [] IsTransactionKind(stmt, {"TRANS_STMT_RELEASE"}) -> "RELEASE SAVEPOINT"
      [] IsTransactionKind(stmt, {"TRANS_STMT_ROLLBACK_TO"}) ->
             "ROLLBACK TO SAVEPOINT"
      [] stmt.node = "T_LockStmt" -> "LOCK TABLE"
      [] OTHER -> ""

\* nothing but the entry into the dispatcher and guard checks was called
OnlyGuardsCalled(calls) ==
    \A i \in 1..Len(calls) : calls[i].class \in {"dispatch", "guard"}

\* C11 (as the specification states it): SAVEPOINT, RELEASE SAVEPOINT,
\* ROLLBACK TO SAVEPOINT and LOCK TABLE dispatched outside a transaction block
\* fail with the error "can only be used in transaction blocks" naming the
\* command, before the savepoint stack or a lock is touched.
C11_BlockRequired ==
    (last.active /\ BlockRequiredName(last.in.stmt) # ""
       /\ last.pre.block = "Idle") =>
        /\ last.post.err = UserError("ERRCODE_NO_ACTIVE_SQL_TRANSACTION",
                                     RequiresBlockMessage,
                                     BlockRequiredName(last.in.stmt))
        /\ OnlyGuardsCalled(last.post.calls)
        /\ savepoints = last.pre.savepoints

\* C11, amended: dispatched at top level outside a transaction block, RELEASE
\* SAVEPOINT, ROLLBACK TO SAVEPOINT and LOCK TABLE, and SAVEPOINT in a build
\* without PGXC, fail with the error "can only be used in transaction blocks"
\* naming the command, before the savepoint stack or a lock is touched; in a
\* PGXC build SAVEPOINT fails with "SAVEPOINT is not yet supported." before
\* the guard is reached; inside a block the guard never raises.
C11_BlockRequiredAtTopLevel ==
    (last.active /\ BlockRequiredName(last.in.stmt) # "") =>
        LET stmt == last.in.stmt
            post == last.post
            fenced == PGXC /\ IsTransactionKind(stmt, {"TRANS_STMT_SAVEPOINT"})
            guards == CallsTo(post.calls, "RequireTransactionChain")
        IN  /\ fenced =>
                /\ post.err.msg = "SAVEPOINT is not yet supported."
                /\ guards = {}
                /\ savepoints = last.pre.savepoints
            /\ (~fenced /\ last.in.isTopLevel /\ last.pre.block = "Idle") =>
                /\ post.err = UserError("ERRCODE_NO_ACTIVE_SQL_TRANSACTION",
                                        RequiresBlockMessage,
                                        BlockRequiredName(stmt))
                /\ guards = {2}
                /\ post.calls[2].arg = BlockRequiredName(stmt)
                /\ OnlyGuardsCalled(post.calls)
                /\ savepoints = last.pre.savepoints
            /\ (~fenced /\ last.pre.block = "InBlock") =>
                /\ guards = {2}
                /\ post.err.msg # RequiresBlockMessage
                /\ Len(post.calls) > 2

C11_Witness ==
    /\ last.active
    /\ ~PGXC
    /\ IsTransactionKind(last.in.stmt, {"TRANS_STMT_SAVEPOINT"})
    /\ last.in.isTopLevel
    /\ last.pre.block = "Idle"
    /\ last.post.err.msg = RequiresBlockMessage
    /\ last.post.err.cmd = "SAVEPOINT"


\* the statements that call PreventTransactionChain
BlockForbidden(stmt) ==
    \/ stmt.node \in {"T_CreatedbStmt", "T_DropdbStmt", "T_CreateTableSpaceStmt",
                      "T_DropTableSpaceStmt", "T_AlterEnumStmt"}
    \/ stmt.node = "T_ReindexStmt" /\ stmt.kind = "OBJECT_DATABASE"
    \/ IsTransactionKind(stmt, {"TRANS_STMT_COMMIT_PREPARED",
                                "TRANS_STMT_ROLLBACK_PREPARED"})

\* a user error raised while only guard checks had been made: nothing was
\* done locally and nothing was sent
FailedBeforeAnyEffect(post) ==
    /\ Failed(post)
    /\ post.err.sev = "ERROR"
    /\ OnlyGuardsCalled(post.calls)

\* C12: CREATE DATABASE, DROP DATABASE, CREATE TABLESPACE, DROP TABLESPACE,
\* ALTER TYPE ... ADD, REINDEX DATABASE, COMMIT PREPARED and ROLLBACK PREPARED
\* dispatched inside a transaction block fail with a user error, raised before
\* any local effect and before anything is sent to another node.
C12_BlockForbidden ==
    (last.active /\ BlockForbidden(last.in.stmt) /\ last.pre.block = "InBlock") =>
        FailedBeforeAnyEffect(last.post)

\* The same holds of every one of these statements except DROP DATABASE on an
\* originating coordinator in a read-write transaction, where the failure is
\* still certain but the connection clean-up has been sent by then.
C12_ExceptDropDatabaseAtOrigin ==
    (last.active /\ BlockForbidden(last.in.stmt) /\ last.pre.block = "InBlock") =>
        IF last.in.stmt.node = "T_DropdbStmt" /\ Origin /\ ~last.pre.ro
        THEN /\ Failed(last.post)
             /\ CallsTo(last.post.calls, "dropdb") = {}
             /\ CallsTo(last.post.calls, "DropDBCleanConnection") # {}
             /\ CallsTo(last.post.calls, "ExecRemoteUtility") # {}
        ELSE FailedBeforeAnyEffect(last.post)


(***************************************************************************)
(* Guard on recovery                                                       *)
(***************************************************************************)
RecoveryMessage == "cannot execute %s during recovery"

\* the statements that call PreventCommandDuringRecovery, with the name they
\* pass
RecoveryGuardedName(stmt) ==
    CASE stmt.node = "T_NotifyStmt" -> "NOTIFY"
      [] stmt.node = "T_ListenStmt" -> "LISTEN"
      [] stmt.node = "T_UnlistenStmt" -> "UNLISTEN"
      [] stmt.node = "T_ClusterStmt" -> "CLUSTER"
      [] stmt.node = "T_VacuumStmt" -> "VACUUM"
      [] stmt.node = "T_ReindexStmt" -> "REINDEX"
      [] IsTransactionKind(stmt, {"TRANS_STMT_PREPARE"}) -> "PREPARE TRANSACTION"
      [] IsTransactionKind(stmt, {"TRANS_STMT_COMMIT_PREPARED"}) ->
             "COMMIT PREPARED"
      [] IsTransactionKind(stmt, {"TRANS_STMT_ROLLBACK_PREPARED"}) ->
             "ROLLBACK PREPARED"
      [] OTHER -> ""

RecoveryError(stmt) ==
    UserError("ERRCODE_READ_ONLY_SQL_TRANSACTION", RecoveryMessage,
              RecoveryGuardedName(stmt))

\* C13 (as the specification states it): in recovery NOTIFY, LISTEN, UNLISTEN,
\* CLUSTER, VACUUM, REINDEX, PREPARE TRANSACTION, COMMIT PREPARED and ROLLBACK
\* PREPARED each fail with the error "cannot execute ... during recovery"
\* naming the command, before a leaf handler runs and before anything is
\* sent; outside recovery no dispatch fails with that error.
C13_RecoveryGuard ==
    (last.active /\ RecoveryGuardedName(last.in.stmt) # "") =>
        IF recovery
        THEN /\ last.post.err = RecoveryError(last.in.stmt)
             /\ OnlyGuardsCalled(last.post.calls)
        ELSE last.post.err.msg # RecoveryMessage

\* C13, amended: in recovery each of the nine commands fails with a user error
\* naming the command before a leaf handler runs and before anything is sent;
\* the error is "cannot execute ... during recovery", except for COMMIT
\* PREPARED and ROLLBACK PREPARED dispatched inside a transaction block or not
\* at top level, which the transaction-block guard rejects first.  Outside
\* recovery no dispatch fails with the recovery error.
C13_RecoveryGuardAfterBlockGuard ==
    (last.active /\ RecoveryGuardedName(last.in.stmt) # "") =>
        LET stmt == last.in.stmt
            post == last.post
            chained == /\ IsTransactionKind(stmt, {"TRANS_STMT_COMMIT_PREPARED",
                                                   "TRANS_STMT_ROLLBACK_PREPARED"})
                       /\ (last.pre.block = "InBlock" \/ ~last.in.isTopLevel)
        IN  IF recovery
            THEN /\ OnlyGuardsCalled(post.calls)
                 /\ IF chained
                    THEN /\ post.err.code = "ERRCODE_ACTIVE_SQL_TRANSACTION"
                         /\ post.err.cmd = RecoveryGuardedName(stmt)
                    ELSE post.err = RecoveryError(stmt)
            ELSE post.err.msg # RecoveryMessage

C13_Witness ==
    /\ last.active
    /\ recovery
    /\ Coordinator
    /\ last.in.stmt.node = "T_VacuumStmt"
    /\ last.post.err = RecoveryError(last.in.stmt)
    /\ CallsTo(last.post.calls, "ExecRemoteUtility") = {}
    /\ CallsTo(last.post.calls, "vacuum") = {}


\* the flag sets of the checkpoint requests made by a dispatch, in call order
CheckpointRequests(calls) ==
    [i \in 1..Len(calls) |->
        IF calls[i].fn = "RequestCheckpoint"
        THEN {calls[i].list[j] : j \in 1..Len(calls[i].list)}
        ELSE {}]

\* C14: CHECKPOINT is never rejected on account of recovery.  Issued by a
\* superuser it succeeds and makes one request, with the flags IMMEDIATE and
\* WAIT in recovery and IMMEDIATE, WAIT and FORCE outside it; issued by anyone
\* else it fails, in both modes, before a request is made.
C14_Checkpoint ==
    (last.active /\ last.in.stmt.node = "T_CheckPointStmt") =>
        LET post == last.post
            requests == CallsTo(post.calls, "RequestCheckpoint")
        IN  /\ post.err.msg # RecoveryMessage
            /\ last.in.su =>
                /\ ~Failed(post)
                /\ Cardinality(requests) = 1
                /\ \A i \in requests :
                      CheckpointRequests(post.calls)[i] =
                          IF recovery
                          THEN {"CHECKPOINT_IMMEDIATE", "CHECKPOINT_WAIT"}
                          ELSE {"CHECKPOINT_IMMEDIATE", "CHECKPOINT_WAIT",
                                "CHECKPOINT_FORCE"}
            /\ ~last.in.su =>
                /\ post.err.code = "ERRCODE_INSUFFICIENT_PRIVILEGE"
                /\ post.err.msg = "must be superuser to do CHECKPOINT"
                /\ requests = {}
                /\ OnlyGuardsCalled(post.calls)

C14_Witness ==
    /\ last.active
    /\ last.in.stmt.node = "T_CheckPointStmt"
    /\ recovery
    /\ last.in.su
    /\ ~Failed(last.post)
    /\ \E i \in CallsTo(last.post.calls, "RequestCheckpoint") :
          "CHECKPOINT_FORCE" \notin CheckpointRequests(last.post.calls)[i]


(***************************************************************************)
(* Guard on security-restricted operations                                 *)
(***************************************************************************)
RestrictedMessage == "cannot execute %s within security-restricted operation"

\* the statements that call CheckRestrictedOperation, with the name they pass
RestrictedName(stmt) ==
    CASE stmt.node = "T_ClosePortalStmt" -> "CLOSE"
      [] stmt.node = "T_PrepareStmt" -> "PREPARE"
      [] stmt.node = "T_DeallocateStmt" -> "DEALLOCATE"
      [] stmt.node = "T_ListenStmt" -> "LISTEN"
      [] stmt.node = "T_UnlistenStmt" -> "UNLISTEN"
      [] stmt.node = "T_DiscardStmt" -> "DISCARD"
      [] OTHER -> ""

RestrictedError(stmt) ==
    UserError("ERRCODE_INSUFFICIENT_PRIVILEGE", RestrictedMessage,
              RestrictedName(stmt))

\* C15 (as the specification states it): in a security-restricted operation
\* CLOSE, PREPARE, DEALLOCATE, LISTEN, UNLISTEN and DISCARD each fail with the
\* insufficient-privilege error naming the command and leave the session
\* state untouched; outside such an operation no dispatch fails with it.
C15_RestrictedGuard ==
    (last.active /\ RestrictedName(last.in.stmt) # "") =>
        IF last.in.sec
        THEN /\ last.post.err = RestrictedError(last.in.stmt)
             /\ OnlyGuardsCalled(last.post.calls)
        ELSE last.post.err.msg # RestrictedMessage

\* C15, amended: in a security-restricted operation each of the six commands
\* fails with a user error and leaves the session state untouched; the error
\* is the insufficient-privilege error naming the command, except for PREPARE
\* in a PGXC build, rejected as unsupported first, and for LISTEN and UNLISTEN
\* in recovery, rejected by the recovery guard first.  Outside such an
\* operation no dispatch fails with the insufficient-privilege error.
C15_RestrictedGuardInOrder ==
    (last.active /\ RestrictedName(last.in.stmt) # "") =>
        LET stmt == last.in.stmt
            post == last.post
        IN  IF last.in.sec
            THEN /\ OnlyGuardsCalled(post.calls)
                 /\ post.err =
                      IF PGXC /\ stmt.node = "T_PrepareStmt"
                      THEN UserError("ERRCODE_FEATURE_NOT_SUPPORTED",
                                     "Postgres-XC does not support PREPARE yet", "")
                      ELSE IF recovery
                              /\ stmt.node \in {"T_ListenStmt", "T_UnlistenStmt"}
                      THEN RecoveryError(stmt)
                      ELSE RestrictedError(stmt)
            ELSE post.err.msg # RestrictedMessage

C15_Witness ==
    /\ last.active
    /\ last.in.stmt.node = "T_DiscardStmt"
    /\ last.in.sec
    /\ last.post.err = RestrictedError(last.in.stmt)
    /\ CallsTo(last.post.calls, "DiscardCommand") = {}
    /\ CallsTo(last.post.calls, "PoolManagerSetCommand") = {}


(***************************************************************************)
(* Target sets                                                             *)
(***************************************************************************)
\* what a statement is aimed at: "coordinator" for a sequence, a view or a
\* rule on a view, "table" for an ordinary table or a rule on one, "" for
\* anything else.  The relkind fields are what the catalog holds for the
\* relation the statement names.
RouteTarget(stmt) ==
    LET byType(objtype) ==
            IF objtype \in {"OBJECT_SEQUENCE", "OBJECT_VIEW"} THEN "coordinator"
            ELSE IF objtype = "OBJECT_TABLE" THEN "table" ELSE ""
        byRelkind(relkind) ==
            IF relkind \in {"RELKIND_SEQUENCE", "RELKIND_VIEW"} THEN "coordinator"
            ELSE IF relkind = "RELKIND_RELATION" THEN "table" ELSE ""
        kinds == {stmt.objects[i] : i \in 1..Len(stmt.objects)}
    IN  CASE stmt.node \in {"T_DropStmt", "T_CommentStmt"} -> byType(stmt.kind)
          [] stmt.node \in {"T_RenameStmt", "T_AlterObjectSchemaStmt"} ->
                 byRelkind(stmt.relkind)
          [] stmt.node = "T_AlterTableStmt" ->
                 IF \A i \in 1..Len(stmt.stmts) :
                        stmt.stmts[i].node = "T_AlterTableStmt"
                 THEN byRelkind(stmt.relkind) ELSE ""
          [] stmt.node = "T_GrantStmt" ->
                 IF stmt.kind = "ACL_OBJECT_SEQUENCE" THEN "coordinator"
                 ELSE IF stmt.kind = "ACL_OBJECT_RELATION" /\ kinds # {}
                 THEN IF kinds \subseteq {"RELKIND_SEQUENCE", "RELKIND_VIEW"}
                      THEN "coordinator"
                      ELSE IF kinds = {"RELKIND_RELATION"} THEN "table" ELSE ""
                 ELSE ""
          [] stmt.node \in {"T_ViewStmt", "T_CreateSeqStmt", "T_AlterSeqStmt"} ->
                 "coordinator"
          [] stmt.node = "T_RuleStmt" -> byRelkind(stmt.relkind)
          [] stmt.node = "T_DropPropertyStmt" /\ stmt.kind = "OBJECT_RULE" ->
                 byRelkind(stmt.relkind)
          [] OTHER -> ""

\* the target sets of the remote executions of a dispatch
RoutedTo(calls) ==
    {calls[i].exec_type : i \in CallsTo(calls, "ExecRemoteUtility")}

RoutedOnlyTo(post, exec_type) ==
    /\ RoutedTo(post.calls) \subseteq {exec_type}
    /\ ~Failed(post) => RoutedTo(post.calls) = {exec_type}

\* a statement handed to an originating coordinator as a command of its own:
\* an ALTER TABLE that is a sub-statement of another command leaves the
\* propagation to that command
IssuedAtOrigin ==
    /\ last.active
    /\ Origin
    /\ last.in.stmt.node = "T_AlterTableStmt" => last.in.isTopLevel

\* C16: on an originating coordinator a command aimed at a sequence, a view or
\* a rule on a view is sent to the coordinators only, never to a data node,
\* and the same command aimed at an ordinary table is sent to all nodes.
C16_CoordinatorOnlyObjects ==
    IssuedAtOrigin =>
        /\ RouteTarget(last.in.stmt) = "coordinator" =>
               RoutedOnlyTo(last.post, "EXEC_ON_COORDS")
        /\ RouteTarget(last.in.stmt) = "table" =>
               RoutedOnlyTo(last.post, "EXEC_ON_ALL_NODES")

\* a view named through the table form of RENAME, SET SCHEMA or ALTER TABLE
ViewInTableForm(stmt) ==
    /\ stmt.node \in {"T_RenameStmt", "T_AlterObjectSchemaStmt", "T_AlterTableStmt"}
    /\ stmt.kind = "OBJECT_TABLE"
    /\ stmt.relkind = "RELKIND_VIEW"

\* The same holds of every statement except a view named through the table
\* form, which is sent to all nodes.
C16_ExceptViewInTableForm ==
    IssuedAtOrigin =>
        IF ViewInTableForm(last.in.stmt)
        THEN RouteTarget(last.in.stmt) = "coordinator" =>
                 RoutedOnlyTo(last.post, "EXEC_ON_ALL_NODES")
        ELSE /\ RouteTarget(last.in.stmt) = "coordinator" =>
                    RoutedOnlyTo(last.post, "EXEC_ON_COORDS")
             /\ RouteTarget(last.in.stmt) = "table" =>
                    RoutedOnlyTo(last.post, "EXEC_ON_ALL_NODES")


MaintenanceNodes ==
    {"T_ClusterStmt", "T_VacuumStmt", "T_CheckPointStmt", "T_LoadStmt"}

\* C17: CLUSTER, VACUUM, CHECKPOINT and LOAD are sent to the data nodes only:
\* no remote execution of such a dispatch has another target set, and on an
\* originating coordinator a dispatch that succeeds has sent the statement
\* text exactly once.
C17_MaintenanceOnDataNodes ==
    (last.active /\ last.in.stmt.node \in MaintenanceNodes) =>
        LET calls == last.post.calls
            sent == CallsTo(calls, "ExecRemoteUtility")
        IN  /\ RoutedTo(calls) \subseteq {"EXEC_ON_DATANODES"}
            /\ CallsOfClass(calls, "remote") = sent
            /\ (Origin /\ ~Failed(last.post)) =>
                   /\ Cardinality(sent) = 1
                   /\ \A i \in sent : calls[i].sql = QueryString
            /\ ~Origin => sent = {}

C17_Witness ==
    /\ last.active
    /\ Origin
    /\ last.in.stmt.node = "T_LoadStmt"
    /\ ~Failed(last.post)
    /\ RoutedTo(last.post.calls) = {"EXEC_ON_DATANODES"}


(***************************************************************************)
(* Features fenced off in a PGXC build                                     *)
(***************************************************************************)
\* the statements whose branch holds an ereport of an unsupported feature
FencedFirst(stmt) ==
    \/ stmt.node = "T_IndexStmt" /\ stmt.flag
    \/ IsTransactionKind(stmt, {"TRANS_STMT_SAVEPOINT"})
    \/ stmt.node \in {"T_PrepareStmt", "T_ExecuteStmt", "T_CreateTableSpaceStmt"}

FencedFeature(stmt) ==
    \/ FencedFirst(stmt)
    \/ stmt.node \in {"T_CreateTrigStmt", "T_DropTableSpaceStmt"}
    \/ stmt.node = "T_CommentStmt" /\ stmt.kind = "OBJECT_RULE"

NotSupportedError(err) ==
    /\ err.sev = "ERROR"
    /\ \/ err.code = "ERRCODE_FEATURE_NOT_SUPPORTED"
       \/ err.msg = "SAVEPOINT is not yet supported."

\* C18: in a PGXC build a concurrent index build, SAVEPOINT, PREPARE, EXECUTE,
\* CREATE TRIGGER, the tablespace commands and COMMENT ON RULE fail with a
\* "not supported" error raised before a leaf handler of the command has run
\* and before anything is sent, in every session state.
C18_FencedFeatures ==
    (last.active /\ PGXC /\ FencedFeature(last.in.stmt)) =>
        /\ NotSupportedError(last.post.err)
        /\ CallsOfClass(last.post.calls, "leaf") = {}
        /\ CallsOfClass(last.post.calls, "remote") = {}

\* What holds instead.  The statements fenced at the head of their branch are
\* rejected before anything else is called, by the fence or, in a read-only
\* transaction, by the read-only guard before it; CREATE TRIGGER reaches the
\* fence only after CreateTrigger has been called; COMMENT ON RULE is fenced
\* on an originating coordinator only, after CommentObject has been called;
\* DROP TABLESPACE is not fenced.
C18_FenceOrder ==
    (last.active /\ PGXC /\ FencedFeature(last.in.stmt)) =>
        LET stmt == last.in.stmt
            post == last.post
        IN  /\ CallsOfClass(post.calls, "remote") = {}
            /\ FencedFirst(stmt) =>
                  /\ OnlyGuardsCalled(post.calls)
                  /\ NotSupportedError(post.err) \/ RejectedAsReadOnly(post)
            /\ (stmt.node = "T_CreateTrigStmt" /\ ~RejectedAsReadOnly(post)) =>
                  /\ CallsTo(post.calls, "CreateTrigger") # {}
                  /\ Failed(post)
            /\ (stmt.node = "T_CommentStmt" /\ ~RejectedAsReadOnly(post)) =>
                  /\ CallsTo(post.calls, "CommentObject") # {}
                  /\ ~Origin => ~NotSupportedError(post.err)
            /\ stmt.node = "T_DropTableSpaceStmt" => ~NotSupportedError(post.err)


(***************************************************************************)
(* Compound commands                                                       *)
(***************************************************************************)
IsCompound(stmt) == stmt.node \in {"T_CreateStmt", "T_AlterTableStmt"}

\* the list the foreach of the branch runs over: what parse analysis returned
\* and, for a statement at top level, what AddRemoteQueryNode made of it
ExecutedList(in) ==
    IF PGXC /\ in.isTopLevel
    THEN AddRemoteQueryNode(in.stmt.stmts, QueryString,
             IF in.stmt.node = "T_CreateStmt" THEN "EXEC_ON_ALL_NODES"
             ELSE RelationExecType(in.stmt.kind, in.stmt.relkind))
    ELSE in.stmt.stmts

\* a sub-statement of the branch's own kind is executed in place, any other
\* one by a nested dispatch
InPlace(parent, item) == item.node = parent.node

\* does this call open the execution of the sub-statement?
OpensItem(parent, item, call) ==
    IF InPlace(parent, item)
    THEN /\ call.class = "leaf"
         /\ call.fn = (IF parent.node = "T_CreateStmt" THEN "DefineRelation"
                       ELSE "AlterTable")
    ELSE /\ call.class = "dispatch"
         /\ call.arg = item.node

\* the positions in the trace where the sub-statements are opened, searched in
\* list order from position from on; 0 where none is found
RECURSIVE ItemStarts(_, _, _, _)
ItemStarts(parent, list, calls, from) ==
    IF list = <<>> THEN <<>>
    ELSE LET found == {i \in from..Len(calls) :
                          OpensItem(parent, Head(list), calls[i])}
             at == IF found = {} THEN 0
                   ELSE CHOOSE i \in found : \A j \in found : i <= j
         IN  <<at>> \o ItemStarts(parent, Tail(list), calls,
                                  IF at = 0 THEN Len(calls) + 1 ELSE at + 1)

IsCCI(call) == call.class = "cci"

\* C19: a compound command whose list has n sub-statements executes them in
\* list order, with exactly one CommandCounterIncrement between consecutive
\* sub-statements and none after the last; a table creation in the list is
\* DefineRelation, one CommandCounterIncrement, AlterTableCreateToastTable.
C19_CompoundOrder ==
    (last.active /\ IsCompound(last.in.stmt) /\ ~Failed(last.post)) =>
        LET parent == last.in.stmt
            calls == last.post.calls
            list == ExecutedList(last.in)
            n == Len(list)
            start == ItemStarts(parent, list, calls, 2)
            tables == {i \in 1..n : parent.node = "T_CreateStmt"
                                    /\ InPlace(parent, list[i])}
        IN  /\ \A i \in 1..n : start[i] # 0
            /\ \A i \in 1..(start[1] - 1) : ~IsCCI(calls[i])
            /\ \A i \in 2..n : /\ IsCCI(calls[start[i] - 1])
                               /\ ~IsCCI(calls[start[i] - 2])
            /\ ~IsCCI(calls[Len(calls)])
            /\ Cardinality(CallsOfClass(calls, "cci")) =
                   (n - 1) + Cardinality(tables)
            /\ \A i \in tables :
                   /\ calls[start[i]].fn = "DefineRelation"
                   /\ IsCCI(calls[start[i] + 1])
                   /\ calls[start[i] + 2].fn = "AlterTableCreateToastTable"
                   /\ (i < n => start[i + 1] = start[i] + 4)
            /\ Cardinality(CallsTo(calls, "DefineRelation")) = Cardinality(tables)
            /\ Cardinality(CallsTo(calls, "AlterTableCreateToastTable")) =
                   Cardinality(tables)

C19_Witness ==
    /\ last.active
    /\ last.in.stmt.node = "T_CreateStmt"
    /\ Len(ExecutedList(last.in)) >= 3
    /\ ~Failed(last.post)
    /\ Cardinality(CallsOfClass(last.post.calls, "cci")) >= 3
    /\ CallsTo(last.post.calls, "AlterTableCreateToastTable") # {}


\* the nested dispatches of a trace: every entry into ProcessUtility after
\* the first
NestedDispatches(calls) == CallsOfClass(calls, "dispatch") \ {1}

\* the sub-statements whose own branch sends the statement text: a sequence
\* creation or alteration, and an index that does not back a constraint
PropagatingItems(list) ==
    {i \in 1..Len(list) :
        \/ list[i].node \in {"T_CreateSeqStmt", "T_AlterSeqStmt"}
        \/ list[i].node = "T_IndexStmt" /\ ~list[i].flag2}

TopLevelCompoundAtOrigin ==
    /\ last.active
    /\ Origin
    /\ IsCompound(last.in.stmt)
    /\ last.in.isTopLevel
    /\ ~Failed(last.post)

\* C20: every sub-statement of a compound command re-enters the dispatcher
\* with isTopLevel false, and a top-level compound command on an originating
\* coordinator sends its statement text exactly once, whatever the kinds of
\* its sub-statements.
C20_PropagatedOnce ==
    /\ (last.active /\ IsCompound(last.in.stmt)) =>
           \A i \in NestedDispatches(last.post.calls) : ~last.post.calls[i].b
    /\ TopLevelCompoundAtOrigin =>
           Cardinality(CallsTo(last.post.calls, "ExecRemoteUtility")) = 1

\* What holds instead: beside the one remote execution of the RemoteQuery
\* node appended by the outermost call there is one more for every sequence
\* and every non-constraint index among the sub-statements.
C20_PropagatedPerSubStatement ==
    /\ (last.active /\ IsCompound(last.in.stmt)) =>
           \A i \in NestedDispatches(last.post.calls) : ~last.post.calls[i].b
    /\ TopLevelCompoundAtOrigin =>
           LET calls == last.post.calls
               sent == CallsTo(calls, "ExecRemoteUtility")
           IN  /\ Cardinality(sent) =
                      1 + Cardinality(PropagatingItems(last.in.stmt.stmts))
               /\ \A i \in sent : calls[i].sql = QueryString
               /\ \E i \in sent : /\ calls[i - 1].class = "dispatch"
                                  /\ calls[i - 1].arg = "T_RemoteQuery"
                                  /\ \A j \in sent : j <= i


(***************************************************************************)
(* One leaf command per simple command                                     *)
(***************************************************************************)
\* a statement of the parser that is neither transaction control nor
\* expanded into a list of sub-statements
IsSimple(stmt) ==
    /\ stmt.node # "T_TransactionStmt"
    /\ stmt.node \notin {"T_CreateStmt", "T_CreateForeignTableStmt",
                         "T_AlterTableStmt"}
    /\ stmt.node # "T_RemoteQuery"

\* no guard, fence or precondition check stopped the dispatch: it completed,
\* or the error came out of the leaf command itself
GuardsPassed(post) == ~Failed(post) \/ post.err.code = "<leaf>"

UnknownKind(stmt) ==
    \/ stmt.node = "T_SelectStmt"
    \/ stmt.node = "T_PlannedStmt"
         /\ (stmt.stmts = <<>> \/ stmt.stmts[1].node # "T_DeclareCursorStmt")
    \/ stmt.node = "T_DropStmt" /\ DropStmtLeaf(stmt.kind) = ""
    \/ stmt.node = "T_DefineStmt" /\ DefineStmtLeaf(stmt.kind) = ""
    \/ stmt.node = "T_AlterDomainStmt" /\ AlterDomainLeaf(stmt.kind) = ""
    \/ stmt.node = "T_RemoveFuncStmt" /\ RemoveFuncLeaf(stmt.kind) = ""
    \/ stmt.node = "T_DropPropertyStmt"
         /\ stmt.kind \notin {"OBJECT_RULE", "OBJECT_TRIGGER"}
    \/ stmt.node = "T_ReindexStmt"
         /\ stmt.kind \notin {"OBJECT_INDEX", "OBJECT_TABLE", "OBJECT_DATABASE"}

IsInternalError(err) == err.sev = "elog" /\ err.code = "ERRCODE_INTERNAL_ERROR"

\* the dispatch left the session as it found it
SessionUntouched(pre, post) ==
    /\ post.block = pre.block
    /\ post.aborted = pre.aborted
    /\ post.savepoints = pre.savepoints
    /\ post.ro = pre.ro
    /\ post.local = pre.local
    /\ post.remote = pre.remote

ForcesAutocommit(stmt) ==
    \/ stmt.node \in {"T_CreatedbStmt", "T_DropdbStmt", "T_ClusterStmt",
                      "T_VacuumStmt", "T_CheckPointStmt", "T_CleanConnStmt"}
    \/ stmt.node = "T_ReindexStmt" /\ stmt.kind = "OBJECT_DATABASE"
    \/ stmt.node = "T_IndexStmt" /\ stmt.flag

\* C23 (as the specification states it): every plan handed to the remote
\* execution has the combine policy SAME and carries the source text of the
\* command being dispatched.
C23_VerbatimText ==
    last.active =>
        \A i \in CallsTo(last.post.calls, "ExecRemoteUtility") :
            /\ last.post.calls[i].combine_type = "COMBINE_TYPE_SAME"
            /\ last.post.calls[i].sql = QueryString

\* C23, amended: every plan has the combine policy SAME, and carries the
\* source text of the command being dispatched except for the first plan of
\* DROP DATABASE, which carries a CLEAN CONNECTION statement built from the
\* database name and goes to the coordinators with force_autocommit set; a
\* simple command's plans have force_autocommit set exactly when its branch
\* asks for it.
C23_VerbatimTextButCleanConnection ==
    last.active =>
        LET calls == last.post.calls
            stmt == last.in.stmt
            sent == CallsTo(calls, "ExecRemoteUtility")
            first == CHOOSE i \in sent : \A j \in sent : i <= j
        IN  \A i \in sent :
                /\ calls[i].combine_type = "COMBINE_TYPE_SAME"
                /\ IF stmt.node = "T_DropdbStmt" /\ i = first
                   THEN /\ calls[i].sql = CleanConnectionQuery(stmt.name)
                        /\ calls[i].sql # QueryString
                        /\ calls[i].exec_type = "EXEC_ON_COORDS"
                        /\ calls[i].force_autocommit
                        /\ calls[i - 1].fn = "DropDBCleanConnection"
                   ELSE calls[i].sql = QueryString
                /\ IsSimple(stmt) =>
                       (calls[i].force_autocommit <=> ForcesAutocommit(stmt))

C23_Witness ==
    /\ last.active
    /\ last.in.stmt.node = "T_DropdbStmt"
    /\ ~Failed(last.post)
    /\ Cardinality(CallsTo(last.post.calls, "ExecRemoteUtility")) = 2

(***************************************************************************)
(* The classifiers, applied by the caller to the commands of a session     *)
(* whose prepared statements come and go.                                  *)
(***************************************************************************)
MaxOptions == 2

PreparedNames == {"p1", "p2"}

\* raw parse trees of the statements PREPARE accepts
PreparableStmts ==
    {Node("T_InsertStmt"), Flags("T_SelectStmt", FALSE, FALSE),
     Flags("T_SelectStmt", TRUE, FALSE)}

ExplainOptionLists ==
    LET opts == {DefElem("analyze", a) : a \in {"", "true", "false"}}
                \cup {DefElem("verbose", "true")}
    IN  UNION {[1..n -> opts] : n \in 0..MaxOptions}

CommandTypes ==
    {"CMD_SELECT", "CMD_UPDATE", "CMD_INSERT", "CMD_DELETE", "CMD_NOTHING"}

\* planner and rewriter output: a select carries no utility statement or
\* the DECLARE CURSOR it belongs to
PlannedForms(tag) ==
    {[Node(tag) EXCEPT !.kind = k] :
        k \in CommandTypes \ {"CMD_SELECT"}}
    \cup {[Node(tag) EXCEPT !.kind = "CMD_SELECT", !.flag = into,
                            !.flag2 = marks # <<>>, !.options = marks,
                            !.flag3 = cte, !.stmts = u] :
          into \in BOOLEAN, cte \in BOOLEAN,
          marks \in {<<>>, <<DefElem("markType", "exclusive")>>,
                     <<DefElem("markType", "share")>>},
          u \in {<<>>, <<Node("T_DeclareCursorStmt")>>}}

ClassifierCommands ==
    {c \in Statements :
        c.node \notin {"T_PrepareStmt", "T_ExecuteStmt", "T_ExplainStmt",
                       "T_PlannedStmt", "T_SelectStmt", "T_CopyStmt"}}
    \cup {Node(n) : n \in {"T_DeleteStmt", "T_UpdateStmt", "T_DeclareCursorStmt",
                           "T_ExecDirectStmt", "T_Invalid"}}
    \cup {Kind(n, "?") : n \in {"T_DropStmt", "T_DefineStmt", "T_VariableSetStmt",
                                "T_DiscardStmt", "T_TransactionStmt"}}
    \cup PreparableStmts
    \cup {Flags("T_CopyStmt", f, FALSE) : f \in BOOLEAN}
    \cup PlannedForms("T_PlannedStmt")
    \cup PlannedForms("T_Query")
    \cup {[Node("T_Query") EXCEPT !.kind = "CMD_UTILITY", !.stmts = <<u>>] :
          u \in {Node("T_LockStmt"), Node("T_CreateRoleStmt"),
                 Node("T_TruncateStmt"), Named("T_ExecuteStmt", "p1")}}
    \cup {List("T_PrepareStmt", <<q>>) : q \in PreparableStmts}
    \cup {Named("T_ExecuteStmt", n) : n \in PreparedNames}
    \cup {[Node("T_ExplainStmt") EXCEPT !.options = o, !.stmts = <<q>>] :
          o \in ExplainOptionLists,
          q \in PreparableStmts \cup {Named("T_ExecuteStmt", "p2")}}

\* one run of the three classifiers on a command
Classification(cmd, prepared) ==
    LET l == GetCommandLogLevel(cmd, prepared)
    IN  [tag |-> CreateCommandTag(cmd), lev |-> l.lev, warning |-> l.warning,
         ro |-> CommandIsReadOnly(cmd)]

\* the caller classifies a command; changed tells whether the store has
\* changed since the latest run, between whether it did between the two runs
Classify ==
    /\ classified.runs = <<>>
    /\ \E cmd \in ClassifierCommands :
           /\ cmd.node \in PGXCNodes \cup {"T_ExecDirectStmt"} => PGXC
           /\ classified' = [cmd |-> cmd,
                             runs |-> <<Classification(cmd, prepared_queries)>>,
                             changed |-> FALSE, between |-> FALSE]
    /\ UNCHANGED <<config, session, last, script, prepared_queries>>

\* the caller classifies the same command once more
ClassifyAgain ==
    /\ Len(classified.runs) = 1
    /\ classified' =
           [classified EXCEPT
               !.runs = Append(@, Classification(classified.cmd, prepared_queries)),
               !.between = classified.changed,
               !.changed = FALSE]
    /\ UNCHANGED <<config, session, last, script, prepared_queries>>

\* PREPARE name AS query stores the raw parse tree under a new name
StorePreparedStatement ==
    /\ \E name \in PreparedNames \ DOMAIN prepared_queries,
          query \in PreparableStmts :
           prepared_queries' =
               [n \in DOMAIN prepared_queries \cup {name} |->
                   IF n = name THEN query ELSE prepared_queries[n]]
    /\ classified' = [classified EXCEPT !.changed = classified.runs # <<>>]
    /\ UNCHANGED <<config, session, last, script>>

\* DEALLOCATE name drops the entry
DropPreparedStatement ==
    /\ \E name \in DOMAIN prepared_queries :
           prepared_queries' =
               [n \in DOMAIN prepared_queries \ {name} |-> prepared_queries[n]]
    /\ classified' = [classified EXCEPT !.changed = classified.runs # <<>>]
    /\ UNCHANGED <<config, session, last, script>>

\* the caller is done with the command
ForgetClassification ==
    /\ classified.runs # <<>>
    /\ classified' = NoClassification
    /\ UNCHANGED <<config, session, last, script, prepared_queries>>

ClassifierInit ==
    /\ PGXC \in BOOLEAN
    /\ IS_PGXC_COORDINATOR = PGXC
    /\ connFromCoord = FALSE
    /\ recovery = FALSE
    /\ XactReadOnly = FALSE
    /\ blockState = "Idle"
    /\ blockAborted = FALSE
    /\ savepoints = <<>>
    /\ preparedLocal = {}
    /\ preparedRemote = {}
    /\ last = NoDispatch
    /\ script = <<>>
    /\ prepared_queries = NoPreparedStatements
    /\ classified = NoClassification

ClassifierNext ==
    \/ Classify \/ ClassifyAgain \/ ForgetClassification
    \/ StorePreparedStatement \/ DropPreparedStatement

ClassifierSpec == ClassifierInit /\ [][ClassifierNext]_vars

(***************************************************************************)
(* Properties of the classifiers, stated over the runs on the command the  *)
(* caller holds.                                                           *)
(***************************************************************************)
LogLevels == {"LOGSTMT_ALL", "LOGSTMT_MOD", "LOGSTMT_DDL"}

Runs == {classified.runs[i] : i \in 1..Len(classified.runs)}

\* a node type neither classifier has a case label for
UnknownVariant(cmd) == cmd.node \in {"T_Invalid", "T_RemoteQuery"}

\* a sub-kind outside the ones the tag classifier distinguishes in a variant
UnknownSubKind(cmd) ==
    \/ /\ cmd.node \in {"T_TransactionStmt", "T_DropStmt", "T_DefineStmt",
                         "T_VariableSetStmt", "T_DiscardStmt"}
       /\ cmd.kind = "?"
    \/ /\ cmd.node \in {"T_RemoveFuncStmt", "T_DropPropertyStmt"}
       /\ cmd.kind = "OBJECT_ROLE"
    \/ /\ cmd.node \in {"T_PlannedStmt", "T_Query"}
       /\ cmd.kind = "CMD_NOTHING"

\* C24 as stated: both classifiers return a defined value for every command
\* (a non-empty tag, a level among ALL, MOD and DDL), and a command of an
\* unknown variant or unknown sub-kind gets the tag ??? and the level ALL.
C24_ClassifiersTotal ==
    \A run \in Runs :
        /\ run.tag # ""
        /\ run.lev \in LogLevels
        /\ (UnknownVariant(classified.cmd) \/ UnknownSubKind(classified.cmd))
               => run.tag = "???" /\ run.lev = "LOGSTMT_ALL"

\* C24, amended: both classifiers return a defined value for every command
\* and only ever warn; an unknown variant gets the tag ??? and, with a
\* warning, the level ALL; an unknown sub-kind gets the tag ??? and the
\* level of its variant, which is DDL for DROP, CREATE/define, DROP FUNCTION
\* and DROP TRIGGER/RULE, and ALL for the others.
C24_UnknownSubKindKeepsVariantLevel ==
    \A run \in Runs :
        /\ run.tag # ""
        /\ run.lev \in LogLevels
        /\ run.warning => run.lev = "LOGSTMT_ALL"
        /\ UnknownVariant(classified.cmd)
               => run.tag = "???" /\ run.lev = "LOGSTMT_ALL" /\ run.warning
        /\ UnknownSubKind(classified.cmd)
               => /\ run.tag = "???"
                  /\ run.lev = IF classified.cmd.node \in LogStmtDDLNodes
                               THEN "LOGSTMT_DDL" ELSE "LOGSTMT_ALL"

C24_Witness ==
    /\ classified.cmd = Kind("T_DropStmt", "?")
    /\ Len(classified.runs) = 1
    /\ classified.runs[1].tag = "???"
    /\ classified.runs[1].lev = "LOGSTMT_DDL"

LevelNow(stmt) == GetCommandLogLevel(stmt, prepared_queries).lev

\* the last option named "analyze" is given and is true
LastAnalyzeIsTrue(options) ==
    LET given == {i \in 1..Len(options) : options[i].defname = "analyze"}
    IN  /\ given # {}
        /\ \A i \in given :
               (\A j \in given : j <= i) => options[i].arg \in {"", "true"}

\* C26: the log level of PREPARE is the level of the statement it
\* contains; of EXECUTE the level of the prepared statement it names, or
\* ALL when no such statement is stored; of EXPLAIN the level of the
\* explained statement exactly when the last analyze option given is true,
\* and ALL otherwise.
C26_LooksThrough ==
    (classified.runs # <<>> /\ ~classified.changed)
        => LET cmd == classified.cmd
               lev == classified.runs[Len(classified.runs)].lev
           IN  /\ cmd.node = "T_PrepareStmt" => lev = LevelNow(cmd.stmts[1])
               /\ cmd.node = "T_ExecuteStmt"
                      => lev = IF cmd.name \in DOMAIN prepared_queries
                               THEN LevelNow(prepared_queries[cmd.name])
                               ELSE "LOGSTMT_ALL"
               /\ cmd.node = "T_ExplainStmt"
                      => lev = IF LastAnalyzeIsTrue(cmd.options)
                               THEN LevelNow(cmd.stmts[1])
                               ELSE "LOGSTMT_ALL"

C26_Witness ==
    /\ classified.cmd.node = "T_ExplainStmt"
    /\ classified.cmd.options = <<DefElem("analyze", "true"),
                                  DefElem("analyze", "false")>>
    /\ classified.cmd.stmts = <<Node("T_InsertStmt")>>
    /\ Len(classified.runs) = 1
    /\ ~classified.changed
    /\ classified.runs[1].lev = "LOGSTMT_ALL"

\* a planned SELECT with no INTO clause, no row locks and no data-modifying
\* common table expression
PlainPlannedSelect(cmd) ==
    /\ cmd.node = "T_PlannedStmt"
    /\ cmd.kind = "CMD_SELECT"
    /\ ~cmd.flag
    /\ ~cmd.flag2
    /\ ~cmd.flag3

\* C27: the read-only test answers true exactly for a planned SELECT with
\* no INTO clause, no row locks and no data-modifying CTE; it answers false
\* for planned INSERT, UPDATE and DELETE, for every other planned SELECT
\* and for every utility command.
C27_ReadOnlyExactly ==
    \A run \in Runs : run.ro <=> PlainPlannedSelect(classified.cmd)

C27_Witness ==
    /\ classified.cmd.node = "T_PlannedStmt"
    /\ classified.cmd.kind = "CMD_SELECT"
    /\ classified.cmd.flag3
    /\ ~classified.cmd.flag
    /\ ~classified.cmd.flag2
    /\ Len(classified.runs) = 1
    /\ ~classified.runs[1].ro

\* the failure of a call made for a sub-statement, not of a guard or of
\* parse analysis
SubStatementFailed(post) ==
    /\ post.err.code \in {"<leaf>", "<callee>"}
    /\ post.calls[Len(post.calls)].class # "transform"

\* the same dispatch in a run where no call fails
WithoutFailure ==
    ProcessUtility([last.pre EXCEPT !.failAt = 0], last.in.stmt, QueryString,
                   last.in.isTopLevel, last.in.hasTag)

\* C28: when a sub-statement of a compound command fails, the sub-statements
\* before it have been executed and nothing undoes them (the calls made are
\* exactly the calls of the failure-free run up to the failing one), the
\* sub-statements after it are never started, and the error of the failing
\* call is what the outermost dispatch raises to its caller, the session's
\* transaction state being as before.
C28_FailureStopsTheList ==
    (last.active /\ IsCompound(last.in.stmt) /\ SubStatementFailed(last.post)) =>
        LET parent == last.in.stmt
            calls == last.post.calls
            list == ExecutedList(last.in)
            n == Len(list)
            start == ItemStarts(parent, list, calls, 2)
            started == {i \in 1..n : start[i] # 0}
        IN  /\ started # {}
            /\ \A i \in started : \A j \in 1..i : j \in started
            /\ Len(calls) <= Len(WithoutFailure.calls)
            /\ calls = SubSeq(WithoutFailure.calls, 1, Len(calls))
            /\ last.post.err.cmd = calls[Len(calls)].fn
            /\ SessionUntouched(last.pre, last.post)

C28_Witness ==
    /\ last.active
    /\ last.in.stmt.node = "T_CreateStmt"
    /\ Len(last.in.stmt.stmts) = 3
    /\ SubStatementFailed(last.post)
    /\ LET start == ItemStarts(last.in.stmt, ExecutedList(last.in),
                               last.post.calls, 2)
       IN  start[1] # 0 /\ start[2] # 0 /\ start[3] = 0
    /\ Cardinality(CallsTo(last.post.calls, "DefineRelation")) = 1

\* the command was turned down before anything but guards was called
RejectedByGuard(post) == Failed(post) /\ OnlyGuardsCalled(post.calls)

\* C29: a command that is not transaction control, and a command of any
\* kind that a guard rejects, leaves the session's transaction state (idle
\* or in a block, the block's abort mark, its savepoints) as it was when
\* the dispatcher was entered.
C29_OnlyTransactionControlMoves ==
    (last.active /\ (last.in.stmt.node # "T_TransactionStmt"
                     \/ RejectedByGuard(last.post))) =>
        /\ last.post.block = last.pre.block
        /\ last.post.aborted = last.pre.aborted
        /\ last.post.savepoints = last.pre.savepoints

C29_Witness ==
    /\ last.active
    /\ last.in.stmt.node = "T_TransactionStmt"
    /\ last.in.stmt.kind = "TRANS_STMT_COMMIT_PREPARED"
    /\ last.pre.block = "InBlock"
    /\ last.pre.savepoints # <<>>
    /\ RejectedByGuard(last.post)
    /\ last.post.block = "InBlock"

\* the dispatched command is of this transaction-control kind and names gid
Names(in, kinds, gid) ==
    /\ in.stmt.node = "T_TransactionStmt"
    /\ in.stmt.kind \in kinds
    /\ in.stmt.gid = gid

\* the handles made and resolved by one dispatch, on this node or on the
\* remote nodes
HandlesMade(pre, post) == (post.local \ pre.local) \cup (post.remote \ pre.remote)

HandlesResolved(pre, post) ==
    (pre.local \ post.local) \cup (pre.remote \ post.remote)

\* C30: the handle of a gid comes into existence only in a dispatch of
\* PREPARE TRANSACTION naming that gid and goes out of existence only in a
\* dispatch of COMMIT PREPARED or ROLLBACK PREPARED naming that gid; every
\* other dispatch, and every step of the caller between dispatches, leaves
\* the handles as they were.
C30_HandleLifecycle ==
    /\ [](last.active =>
             /\ \A g \in HandlesMade(last.pre, last.post) :
                    Names(last.in, {"TRANS_STMT_PREPARE"}, g)
             /\ \A g \in HandlesResolved(last.pre, last.post) :
                    Names(last.in, {"TRANS_STMT_COMMIT_PREPARED",
                                    "TRANS_STMT_ROLLBACK_PREPARED"}, g)
             /\ preparedLocal = last.post.local
             /\ preparedRemote = last.post.remote)
    /\ [][/\ last'.active => /\ last'.pre.local = preparedLocal
                              /\ last'.pre.remote = preparedRemote
          /\ ~last'.active => UNCHANGED <<preparedLocal, preparedRemote>>]_vars

C30_Witness ==
    /\ last.active
    /\ Names(last.in, {"TRANS_STMT_COMMIT_PREPARED"}, "g2")
    /\ last.pre.local = {"g1", "g2"}
    /\ last.post.local = {"g1"}
    /\ preparedLocal = {"g1"}

\* C31 as stated: the completion tag is cleared before the read-only guard
\* runs, so a command the guard rejects leaves the caller an empty tag.
C31_TagClearedBeforeGuard ==
    (last.active /\ last.in.hasTag /\ RejectedAsReadOnly(last.post))
        => last.post.tag = ""

\* C31, amended: the read-only guard runs first and the completion tag is
\* cleared after it: a command the guard rejects leaves the caller's tag
\* buffer as the caller passed it, and a dispatch that gets past the guard
\* with a tag buffer has had it cleared or set.
C31_GuardBeforeTagClear ==
    last.active =>
        /\ RejectedAsReadOnly(last.post) => last.post.tag = last.pre.tag
        /\ (last.in.hasTag /\ ~Failed(last.post)) => last.post.tag # "<unset>"

C31_Witness ==
    /\ last.active
    /\ last.in.hasTag
    /\ last.pre.ro
    /\ RejectedAsReadOnly(last.post)
    /\ last.post.tag = "<unset>"

\* the commands whose handler reports a status of its own in the tag
ReportsStatus(stmt) ==
    stmt.node \in {"T_TransactionStmt", "T_FetchStmt", "T_CopyStmt",
                   "T_ExecuteStmt", "T_BarrierStmt"}

\* C32: after a dispatch that returns normally, without a tag buffer no tag
\* has been written; with one, the tag is non-empty only for a command that
\* reports a status of its own; for transaction control it is empty or
\* ROLLBACK, and ROLLBACK only for a COMMIT or PREPARE TRANSACTION whose
\* commit or prepare returned false.
C32_TagOnlyForNonDefaultStatus ==
    (last.active /\ ~Failed(last.post)) =>
        LET stmt == last.in.stmt
            tag == last.post.tag
        IN  /\ ~last.in.hasTag => tag = "<null>"
            /\ last.in.hasTag =>
                   /\ tag # "<unset>"
                   /\ tag # "" => ReportsStatus(stmt)
                   /\ stmt.node = "T_TransactionStmt" =>
                          /\ tag \in {"", "ROLLBACK"}
                          /\ tag = "ROLLBACK" =>
                                 /\ stmt.kind \in {"TRANS_STMT_COMMIT",
                                                   "TRANS_STMT_PREPARE"}
                                 /\ ~last.post.ret

C32_Witness ==
    /\ last.active
    /\ ~Failed(last.post)
    /\ last.in.hasTag
    /\ IsTransactionKind(last.in.stmt, {"TRANS_STMT_PREPARE"})
    /\ ~last.post.ret
    /\ last.post.tag = "ROLLBACK"

SentFirstNodes ==
    {"T_VacuumStmt", "T_RenameStmt", "T_AlterObjectSchemaStmt", "T_GrantStmt"}

\* the target the catalog gives before the command has changed anything:
\* relkind and objects are the relation kinds found by the lookups
TargetBeforeChange(stmt) ==
    LET ofRelkind(relkind) ==
            IF relkind \in {"RELKIND_SEQUENCE", "RELKIND_VIEW"}
            THEN "EXEC_ON_COORDS" ELSE "EXEC_ON_ALL_NODES"
    IN  CASE stmt.node = "T_VacuumStmt" -> "EXEC_ON_DATANODES"
          [] stmt.node = "T_GrantStmt" ->
                 IF stmt.kind = "ACL_OBJECT_SEQUENCE" THEN "EXEC_ON_COORDS"
                 ELSE IF stmt.kind = "ACL_OBJECT_RELATION" /\ stmt.flag2
                         /\ stmt.objects # <<>>
                 THEN ofRelkind(stmt.objects[1])
                 ELSE "EXEC_ON_ALL_NODES"
          [] OTHER ->
                 IF stmt.kind \in {"OBJECT_SEQUENCE", "OBJECT_VIEW"}
                 THEN "EXEC_ON_COORDS"
                 ELSE IF stmt.kind = "OBJECT_TABLE"
                         /\ stmt.relkind = "RELKIND_SEQUENCE"
                 THEN "EXEC_ON_COORDS"
                 ELSE "EXEC_ON_ALL_NODES"

\* C33: on an originating coordinator VACUUM, RENAME, ALTER ... SET SCHEMA
\* and GRANT are sent before their local handler is called, whether or not
\* that handler then fails, and the target set is the one the catalog gave
\* before the local change (data nodes for VACUUM).
C33_SentBeforeLocal ==
    (last.active /\ Origin /\ last.in.stmt.node \in SentFirstNodes) =>
        LET calls == last.post.calls
            sent == CallsTo(calls, "ExecRemoteUtility")
            local == CallsOfClass(calls, "leaf")
        IN  /\ Cardinality(local) <= 1
            /\ local # {} =>
                   /\ Cardinality(sent) = 1
                   /\ \A i \in sent : \A j \in local : i < j
            /\ \A i \in sent :
                   calls[i].exec_type = TargetBeforeChange(last.in.stmt)
            /\ ~Failed(last.post) => local # {}

C33_Witness ==
    /\ last.active
    /\ Origin
    /\ last.in.stmt.node = "T_RenameStmt"
    /\ last.in.stmt.relkind = "RELKIND_SEQUENCE"
    /\ last.post.err.code = "<leaf>"
    /\ Len(last.post.calls) = 3
    /\ last.post.calls[2].fn = "ExecRemoteUtility"
    /\ last.post.calls[2].exec_type = "EXEC_ON_COORDS"
    /\ last.post.calls[3].fn = "ExecRenameStmt"

\* a simple command at an originating coordinator that is not one of the
\* four sent before their local handler
LocalFirstCommand ==
    /\ last.active
    /\ Origin
    /\ IsSimple(last.in.stmt)
    /\ last.in.stmt.node \notin SentFirstNodes

\* C34 as stated: for every such command the local handler is called
\* before anything is sent, so when the local handler fails nothing has
\* been sent to another node.
C34_LocalBeforeSend ==
    LocalFirstCommand =>
        LET calls == last.post.calls
            sent == CallsTo(calls, "ExecRemoteUtility")
            local == CallsOfClass(calls, "leaf")
        IN  /\ \A i \in sent : \A j \in local : j < i
            /\ last.post.err.code = "<leaf>" => sent = {}

\* C34, amended: for every such command the statement itself is sent only
\* after the local handler has returned, so a local failure means the
\* statement was not sent; nothing else is sent before the local handler
\* either, except by DROP DATABASE, which sends a CLEAN CONNECTION for the
\* database to the coordinators before its own guard and local handler.
C34_LocalBeforeSendButDropDatabase ==
    LocalFirstCommand =>
        LET calls == last.post.calls
            sent == CallsTo(calls, "ExecRemoteUtility")
            own == {i \in sent : calls[i].sql = QueryString}
            local == CallsOfClass(calls, "leaf")
        IN  /\ \A i \in own : \A j \in local : j < i
            /\ last.post.err.code = "<leaf>" => own = {}
            /\ last.in.stmt.node # "T_DropdbStmt" => own = sent
            /\ last.in.stmt.node = "T_DropdbStmt" =>
                   /\ \A i \in sent \ own :
                          /\ calls[i].sql = CleanConnectionQuery(last.in.stmt.name)
                          /\ \A j \in local : i < j
                   /\ local # {} => Cardinality(sent \ own) = 1

C34_Witness ==
    /\ LocalFirstCommand
    /\ last.in.stmt.node = "T_DropdbStmt"
    /\ last.post.err.code = "<leaf>"
    /\ Cardinality(CallsTo(last.post.calls, "ExecRemoteUtility")) = 1
    /\ Cardinality(CallsTo(last.post.calls, "dropdb")) = 1


(***************************************************************************)
(* C35: the force-autocommit flag of the router                            *)
(***************************************************************************)
AutocommitCommand(stmt) ==
    \/ stmt.node \in {"T_CreatedbStmt", "T_DropdbStmt", "T_ClusterStmt",
                      "T_VacuumStmt", "T_CheckPointStmt", "T_CleanConnStmt"}
    \/ stmt.node = "T_ReindexStmt" /\ stmt.kind = "OBJECT_DATABASE"

\* C35: every plan handed to the remote executor carries force_autocommit
\* exactly when the command is CREATE DATABASE, DROP DATABASE (its CLEAN
\* CONNECTION included), CLUSTER, VACUUM, CHECKPOINT, REINDEX DATABASE or
\* CLEAN CONNECTION; and whenever the dispatch went through
\* PreventTransactionChain and sent a plan, that plan has force_autocommit.
C35_ForceAutocommitExactly ==
    last.active =>
        LET calls == last.post.calls
            stmt == last.in.stmt
            sent == CallsTo(calls, "ExecRemoteUtility")
        IN  /\ \A i \in sent :
                   calls[i].force_autocommit <=> AutocommitCommand(stmt)
            /\ CallsTo(calls, "PreventTransactionChain") # {} =>
                   \A i \in sent : calls[i].force_autocommit

C35_Witness ==
    /\ last.active
    /\ last.in.stmt.node = "T_ReindexStmt"
    /\ last.in.stmt.kind = "OBJECT_DATABASE"
    /\ ~Failed(last.post)
    /\ CallsTo(last.post.calls, "PreventTransactionChain") # {}
    /\ \E i \in CallsTo(last.post.calls, "ExecRemoteUtility") :
           last.post.calls[i].force_autocommit


(***************************************************************************)
(* C36: order of the steps of BEGIN / START TRANSACTION                    *)
(***************************************************************************)
IsBegin(stmt) == IsTransactionKind(stmt, {"TRANS_STMT_BEGIN", "TRANS_STMT_START"})

BeginOptionNames ==
    {"transaction_isolation", "transaction_read_only", "transaction_deferrable"}

\* the options of the statement that the branch applies, in list order
RECURSIVE AppliedOptions(_)
AppliedOptions(options) ==
    IF options = <<>> THEN <<>>
    ELSE (IF Head(options).defname \in BeginOptionNames
          THEN <<Head(options)>> ELSE <<>>) \o AppliedOptions(Tail(options))

\* C36: in a dispatch of BEGIN/START TRANSACTION every SetPGVariable call
\* comes after the BeginTransactionBlock call, each option of the statement is
\* applied once in list order, and on an originating coordinator the single
\* PGXCNodeBegin call comes before BeginTransactionBlock (elsewhere there is
\* no PGXCNodeBegin call).
C36_OptionsAfterBlockEntry ==
    last.active /\ IsBegin(last.in.stmt) =>
        LET calls == last.post.calls
            enter == CallsTo(calls, "BeginTransactionBlock")
            setv == CallsTo(calls, "SetPGVariable")
            begun == CallsTo(calls, "PGXCNodeBegin")
            applied == AppliedOptions(last.in.stmt.options)
        IN  /\ \A s \in setv : \E e \in enter : e < s
            /\ enter # {} =>
                   /\ Cardinality(enter) = 1
                   /\ Cardinality(setv) = Len(applied)
                   /\ \A k \in 1..Len(applied) :
                          \E s \in setv :
                              /\ Cardinality({t \in setv : t < s}) = k - 1
                              /\ calls[s].arg = applied[k].defname
                              /\ calls[s].list = <<applied[k].arg>>
                   /\ IF Origin
                      THEN /\ Cardinality(begun) = 1
                           /\ \A b \in begun : \A e \in enter : b < e
                      ELSE begun = {}

C36_Witness ==
    /\ last.active
    /\ IsBegin(last.in.stmt)
    /\ Origin
    /\ ~Failed(last.post)
    /\ last.pre.block = "Idle"
    /\ last.post.block = "InBlock"
    /\ Cardinality(CallsTo(last.post.calls, "SetPGVariable")) = 3
    /\ CallsTo(last.post.calls, "PGXCNodeBegin") # {}


(***************************************************************************)
(* C37: the begin statement rebuilt for the remote nodes                   *)
(***************************************************************************)
\* the "name value" items of the options, in list order
RECURSIVE OptionItems(_)
OptionItems(options) ==
    IF options = <<>> THEN <<>>
    ELSE <<Head(options).defname, Head(options).arg>> \o OptionItems(Tail(options))

\* the options that SetPGVariable applied in this dispatch, as items
RECURSIVE LocallyApplied(_, _)
LocallyApplied(calls, i) ==
    IF i > Len(calls) THEN <<>>
    ELSE (IF calls[i].fn = "SetPGVariable"
          THEN <<calls[i].arg>> \o calls[i].list ELSE <<>>)
         \o LocallyApplied(calls, i + 1)

RECURSIVE WithoutDeferrable(_)
WithoutDeferrable(options) ==
    IF options = <<>> THEN <<>>
    ELSE (IF Head(options).defname = "transaction_deferrable"
          THEN <<>> ELSE <<Head(options)>>) \o WithoutDeferrable(Tail(options))

\* C37: on an originating coordinator a successful BEGIN/START TRANSACTION
\* hands PGXCNodeSetBeginQuery a begin string that carries every option
\* applied locally with SetPGVariable: isolation level, read-only and
\* deferrable.
C37_RemoteBeginCarriesApplied ==
    (last.active /\ IsBegin(last.in.stmt) /\ Origin /\ ~Failed(last.post)) =>
        LET calls == last.post.calls
            setq == CallsTo(calls, "PGXCNodeSetBeginQuery")
        IN  /\ Cardinality(setq) = 1
            /\ \A q \in setq : calls[q].list = LocallyApplied(calls, 1)

\* C37 (as the code behaves): the begin string carries the isolation level
\* and the read-only option applied locally, in list order, and never the
\* deferrable option.
C37_RemoteBeginDropsDeferrable ==
    (last.active /\ IsBegin(last.in.stmt) /\ Origin /\ ~Failed(last.post)) =>
        LET calls == last.post.calls
            setq == CallsTo(calls, "PGXCNodeSetBeginQuery")
        IN  /\ Cardinality(setq) = 1
            /\ \A q \in setq :
                   /\ calls[q].list =
                          OptionItems(WithoutDeferrable(
                              AppliedOptions(last.in.stmt.options)))
                   /\ \A k \in 1..Len(calls[q].list) :
                          calls[q].list[k] # "transaction_deferrable"
                   /\ \A s \in CallsTo(calls, "SetPGVariable") : s < q

C37_DeferrableLost ==
    /\ last.active
    /\ IsBegin(last.in.stmt)
    /\ Origin
    /\ ~Failed(last.post)
    /\ \E s \in CallsTo(last.post.calls, "SetPGVariable") :
           last.post.calls[s].arg = "transaction_deferrable"
    /\ \E q \in CallsTo(last.post.calls, "PGXCNodeSetBeginQuery") :
           last.post.calls[q].list =
               <<"transaction_isolation", "serializable",
                 "transaction_read_only", "true">>


(***************************************************************************)
(* C38: GRANT/REVOKE on a list of relations                                *)
(***************************************************************************)
GrantTargetOf(relkind) ==
    IF relkind \in {"RELKIND_SEQUENCE", "RELKIND_VIEW"}
    THEN "EXEC_ON_COORDS" ELSE "EXEC_ON_ALL_NODES"

GrantTargets(objects) == {GrantTargetOf(objects[k]) : k \in 1..Len(objects)}

GrantOnRelationList(stmt) ==
    /\ stmt.node = "T_GrantStmt"
    /\ stmt.kind = "ACL_OBJECT_RELATION"
    /\ stmt.flag2
    /\ stmt.objects # <<>>

\* C38: on an originating coordinator a GRANT/REVOKE on relation objects
\* whose list mixes views or sequences with tables fails, with "PGXC does not
\* support GRANT on multiple object types" unless the read-only guard
\* rejected it first,
\* and in that dispatch nothing is sent and ExecuteGrantStmt is not called;
\* a list whose objects share one target is sent only to that target, once
\* when the dispatch succeeds, and before ExecuteGrantStmt.
C38_MixedGrantRejected ==
    (last.active /\ Origin /\ GrantOnRelationList(last.in.stmt)) =>
        LET calls == last.post.calls
            post == last.post
            targets == GrantTargets(last.in.stmt.objects)
            sent == CallsTo(calls, "ExecRemoteUtility")
            granted == CallsTo(calls, "ExecuteGrantStmt")
        IN  IF Cardinality(targets) > 1
            THEN /\ Failed(post)
                 /\ sent = {}
                 /\ granted = {}
                 /\ IF post.err.code = "ERRCODE_READ_ONLY_SQL_TRANSACTION"
                    THEN RejectedByGuard(post) /\ last.pre.ro
                    ELSE /\ post.err.code = "ERRCODE_FEATURE_NOT_SUPPORTED"
                         /\ post.err.msg =
                                "PGXC does not support GRANT on multiple object types"
            ELSE /\ \A i \in sent : calls[i].exec_type \in targets
                 /\ Cardinality(sent) <= 1
                 /\ ~RejectedByGuard(post) => Cardinality(sent) = 1
                 /\ \A g \in granted : \E i \in sent : i < g

C38_Witness ==
    /\ last.active
    /\ Origin
    /\ GrantOnRelationList(last.in.stmt)
    /\ Len(last.in.stmt.objects) = 3
    /\ Cardinality(GrantTargets(last.in.stmt.objects)) = 2
    /\ last.post.err.code = "ERRCODE_FEATURE_NOT_SUPPORTED"
    /\ CallsTo(last.post.calls, "ExecRemoteUtility") = {}

C38_UniformWitness ==
    /\ last.active
    /\ Origin
    /\ GrantOnRelationList(last.in.stmt)
    /\ last.in.stmt.objects = <<"RELKIND_SEQUENCE", "RELKIND_VIEW">>
    /\ ~Failed(last.post)
    /\ RoutedTo(last.post.calls) = {"EXEC_ON_COORDS"}


(***************************************************************************)
(* C39: SET and DISCARD are handed to the connection pooler                *)
(***************************************************************************)
PoolerCommand(stmt) == stmt.node \in {"T_VariableSetStmt", "T_DiscardStmt"}

LocalHandlerOf(stmt) ==
    IF stmt.node = "T_VariableSetStmt" THEN "ExecSetVariableStmt"
    ELSE "DiscardCommand"

\* the local handler was called and returned
LocalEffectDone(post, stmt) ==
    \E i \in CallsTo(post.calls, LocalHandlerOf(stmt)) :
        ~(Failed(post) /\ i = Len(post.calls))

\* the pooler call was the one that reported a failure
PoolerFailed(post) ==
    /\ post.calls[Len(post.calls)].fn = "PoolManagerSetCommand"
    /\ post.nleaf = post.failAt

C39_NotForwardedWitness ==
    /\ last.active
    /\ Origin
    /\ PoolerCommand(last.in.stmt)
    /\ last.pre.block = "InBlock"
    /\ ~Failed(last.post)
    /\ LocalEffectDone(last.post, last.in.stmt)
    /\ CallsTo(last.post.calls, "PoolManagerSetCommand") = {}


(***************************************************************************)
(* C40: the local finish of COMMIT PREPARED and ROLLBACK PREPARED          *)
(***************************************************************************)
\* C40: on an originating coordinator, ROLLBACK PREPARED calls
\* FinishPreparedTransaction(gid, false) after the remote step and exactly
\* when that step returned and reported this coordinator as a participant of
\* the prepare; COMMIT PREPARED makes one PGXCNodeCommitPrepared call and the
\* branch makes no FinishPreparedTransaction call of its own (a local finish
\* happens only inside the remote step, under the barrier lock, before the
\* step returns); either way a dispatch has at most one local finish.
C40_LocalFinishAfterRemoteStep ==
    (last.active /\ Origin
       /\ IsTransactionKind(last.in.stmt, {"TRANS_STMT_COMMIT_PREPARED",
                                           "TRANS_STMT_ROLLBACK_PREPARED"})) =>
        LET stmt == last.in.stmt
            post == last.post
            calls == post.calls
            finish == CallsTo(calls, "FinishPreparedTransaction")
        IN  /\ Cardinality(finish) <= 1
            /\ \A f \in finish : calls[f].arg = stmt.gid
            /\ IF stmt.kind = "TRANS_STMT_ROLLBACK_PREPARED"
               THEN LET step == CallsTo(calls, "PGXCNodeRollbackPrepared")
                        done == CallsTo(calls, "pgxc_node_rollback_prepared")
                    IN  /\ Cardinality(step) <= 1
                        /\ finish # {} <=> (done # {} /\ post.ret)
                        /\ done # {} => (post.ret <=> stmt.gid \in last.pre.local)
                        /\ \A f \in finish :
                               /\ ~calls[f].b
                               /\ \A s \in step \cup done : s < f
               ELSE LET step == CallsTo(calls, "PGXCNodeCommitPrepared")
                        release == CallsTo(calls, "LWLockRelease")
                    IN  /\ Cardinality(step) <= 1
                        /\ ~RejectedByGuard(post) => Cardinality(step) = 1
                        /\ \A f \in finish :
                               /\ calls[f].b
                               /\ calls[f].locked
                               /\ \A s \in step : s < f
                               /\ \E l \in release : f < l

C40_Witness ==
    /\ last.active
    /\ Origin
    /\ IsTransactionKind(last.in.stmt, {"TRANS_STMT_ROLLBACK_PREPARED"})
    /\ ~Failed(last.post)
    /\ last.post.ret
    /\ last.in.stmt.gid \in last.pre.local
    /\ last.in.stmt.gid \notin last.post.local
    /\ Cardinality(CallsTo(last.post.calls, "FinishPreparedTransaction")) = 1

C40_CommitWitness ==
    /\ last.active
    /\ Origin
    /\ IsTransactionKind(last.in.stmt, {"TRANS_STMT_COMMIT_PREPARED"})
    /\ ~Failed(last.post)
    /\ last.in.stmt.gid \in last.pre.local
    /\ Cardinality(CallsTo(last.post.calls, "PGXCNodeCommitPrepared")) = 1

C40_NotInvolvedWitness ==
    /\ last.active
    /\ Origin
    /\ IsTransactionKind(last.in.stmt, {"TRANS_STMT_ROLLBACK_PREPARED"})
    /\ ~Failed(last.post)
    /\ ~last.post.ret
    /\ CallsTo(last.post.calls, "pgxc_node_rollback_prepared") # {}
    /\ CallsTo(last.post.calls, "FinishPreparedTransaction") = {}

====
